---- MODULE Spec2Model ----
(***************************************************************************)
(* Model of the raster statistics service (src/app_rstats/main.py).        *)
(*                                                                         *)
(* Every request handler is stateless: a request arrives, the handler      *)
(* runs to completion and its answer is handed to the web framework.       *)
(* The state records the request being served, what the handler did (the   *)
(* window it resolved, the raster reads it issued, whether it logged) and   *)
(* how it ended (a returned value or a raised exception).                   *)
(*                                                                         *)
(* Numbers.  World coordinates are integers.  A position on the pixel grid *)
(* is the exact rational n / SubPx(transform): Window fields hold the      *)
(* numerator n, so p whole pixels are the field value p * SubPx.           *)
(* The rasterio window primitives (from_bounds, round_offsets,             *)
(* round_lengths, intersection, rowcol) are modelled as rasterio >= 1.3    *)
(* computes them, at the places where the handlers call them.              *)
(***************************************************************************)
EXTENDS Integers, Sequences, FiniteSets, TLC

\* ---------------------------------------------------------------- bounds
\* how far (world units) outside the raster the enumerated coordinates reach
Margin == 3
\* largest radius_pixels that is enumerated
MaxRadius == 2
\* most pixels in the window whose values pixel_stats and geometry_stats reduce
MaxPixels == 5
\* most pixels in the window of raster x that geometry_scatter pairs
MaxPairs == 2
\* largest histogram_bins that is enumerated
MaxBins == 65
MaxDraws == 2
MaxAnswers == 2
MaxSide == 4
MaxSamples == 2
MaxTimeout == 5
MaxWorkspaces == 2
MaxLayers == 3
MaxBandCount == 2
MaxDirs == 2
MaxStems == 3

\* ---------------------------------------------------------------- helpers
Min(a, b) == IF a < b THEN a ELSE b
Max(a, b) == IF a > b THEN a ELSE b

\* math.floor(n / d) for d > 0
Floor(n, d) == n \div d

\* Python's round(n / d) for d > 0: nearest integer, ties to the even one
Round(n, d) ==
  LET q == n \div d
      r == n % d
  IN  IF 2 * r < d THEN q
      ELSE IF 2 * r > d THEN q + 1
      ELSE IF q % 2 = 0 THEN q ELSE q + 1

\* an optional value is a sequence of length 0 (None) or 1
None == <<>>
Some(v) == <<v>>

\* ---------------------------------------------------------------- registry
\* REGISTRY = _load_registry(): raster id -> metadata.  A dataset is north-up:
\* transform (a, 0, c, 0, e, f) with a > 0 > e.  "grid10" is the 10 x 10
\* raster whose pixel (0,0) maps to the world corner (0, 10) with pixel size
\* 1 x (-1); world coordinates are counted in quarters of that unit, so the
\* pixel size is 4 and the corner is (0, 40).  "gone" is registered but its
\* file is missing; any other id is unregistered.
REGISTRY ==
  [ small  |-> [file_exists |-> TRUE, width |-> 3, height |-> 2,
                transform |-> [a |-> 4, b |-> 0, c |-> 0,
                              d |-> 0, e |-> -4, f |-> 8]],
    grid10 |-> [file_exists |-> TRUE, width |-> 10, height |-> 10,
                transform |-> [a |-> 4, b |-> 0, c |-> 0,
                              d |-> 0, e |-> -4, f |-> 40]],
    gone   |-> [file_exists |-> FALSE, width |-> 1, height |-> 1,
                transform |-> [a |-> 4, b |-> 0, c |-> 0,
                              d |-> 0, e |-> -4, f |-> 4]] ]

RasterIds == DOMAIN REGISTRY \cup {"nope"}

\* ---------------------------------------------------------------- outcomes
\* how a handler ends: it returns a value or an exception leaves it
Return(v) == [kind |-> "return", value |-> v, status |-> 200, detail |-> ""]
Raise(exc) == [kind |-> "raise", value |-> exc, status |-> 0, detail |-> ""]
HTTPException(status_code, detail) ==
  [kind |-> "raise", value |-> "HTTPException", status |-> status_code,
   detail |-> detail]
Pending == [kind |-> "pending", value |-> "", status |-> 0, detail |-> ""]

IsHTTP(o, status_code, detail) ==
  /\ o.kind = "raise"
  /\ o.value = "HTTPException"
  /\ o.status = status_code
  /\ o.detail = detail

\* _open_raster: <<dataset>> on success, else the HTTPException it raises
_open_raster(raster_id) ==
  IF raster_id \notin DOMAIN REGISTRY
  THEN [ds |-> None, raised |-> Some(HTTPException(404, "raster_id not found"))]
  ELSE IF ~REGISTRY[raster_id].file_exists
  THEN [ds |-> None, raised |-> Some(HTTPException(500, "raster file missing"))]
  ELSE [ds |-> Some(REGISTRY[raster_id]), raised |-> None]

\* ---------------------------------------------------------------- windows
\* A Window's fields are numerators over d = transform.a sub-pixel units (the
\* rasters are square-pixelled, a = -e, so rows and columns share d).

\* sub-pixel units per pixel of a dataset
SubPx(ds) == ds.transform.a

\* rasterio.windows.Window(col_off, row_off, width, height), whole pixels
Window(d, col_off, row_off, width, height) ==
  [col_off |-> d * col_off, row_off |-> d * row_off,
   width |-> d * width, height |-> d * height]

\* rasterio.windows.from_bounds: None when it raises WindowError ("Bounds and
\* transform are inconsistent"), else the fractional window of the bounds.
\* rowcol(..., op=float) of a corner is ((y - f) / e, (x - c) / a).
from_bounds(left, bottom, right, top, t) ==
  IF (right - left) * t.a < 0 \/ (bottom - top) * t.e < 0
  THEN None
  ELSE LET col_start == Min(left - t.c, right - t.c)
           col_stop  == Max(left - t.c, right - t.c)
           row_start == Min(t.f - top, t.f - bottom)
           row_stop  == Max(t.f - top, t.f - bottom)
       IN  Some([col_off |-> col_start, row_off |-> row_start,
                 width |-> Max(col_stop - col_start, 0),
                 height |-> Max(row_stop - row_start, 0)])

\* Window.round_offsets: int(math.floor(x + 0.001)) on both offsets
round_offsets(w, d) ==
  [w EXCEPT !.col_off = d * Floor(1000 * w.col_off + d, 1000 * d),
            !.row_off = d * Floor(1000 * w.row_off + d, 1000 * d)]

\* Window.round_lengths: int(math.floor(x + 0.5)) on both lengths
round_lengths(w, d) ==
  [w EXCEPT !.width = d * Floor(2 * w.width + d, 2 * d),
            !.height = d * Floor(2 * w.height + d, 2 * d)]

\* rasterio.windows.intersect: the row ranges and the column ranges overlap
intersect(w1, w2) ==
  LET intersects(lo1, hi1, lo2, hi2) == ~(lo1 >= hi2 \/ hi1 <= lo2)
  IN  /\ intersects(w1.row_off, w1.row_off + w1.height,
                    w2.row_off, w2.row_off + w2.height)
      /\ intersects(w1.col_off, w1.col_off + w1.width,
                    w2.col_off, w2.col_off + w2.width)

\* a faulty intersection: the first window is returned as it is, not cut to
\* the second one
intersection_uncut(w1, w2) ==
  IF ~intersect(w1, w2) THEN None ELSE Some(w1)

\* Window.intersection: None when it raises WindowError (the windows do not
\* intersect), else the innermost extent
intersection(w1, w2) ==
  IF ~intersect(w1, w2)
  THEN None
  ELSE LET row_start == Max(w1.row_off, w2.row_off)
           row_stop  == Min(w1.row_off + w1.height, w2.row_off + w2.height)
           col_start == Max(w1.col_off, w2.col_off)
           col_stop  == Min(w1.col_off + w1.width, w2.col_off + w2.width)
       IN  Some([col_off |-> col_start, row_off |-> row_start,
                 width |-> col_stop - col_start,
                 height |-> row_stop - row_start])

\* rasterio.transform.rowcol(transform, x, y, op) for the point
\* (xn / den, yn / den): <<row, col>> in whole pixels
rowcol(t, xn, yn, den, op) ==
  LET conv(n, dd) == IF op = "round" THEN Round(n, dd) ELSE Floor(n, dd)
  IN  << conv(t.f * den - yn, (0 - t.e) * den),
         conv(xn - t.c * den, t.a * den) >>

\* the whole raster as a window: Window(0, 0, ds.width, ds.height)
FullWindow(ds) == Window(SubPx(ds), 0, 0, ds.width, ds.height)

\* int(x) of the rational n / d: truncation towards zero
Trunc(n, d) == IF n >= 0 THEN n \div d ELSE 0 - ((0 - n) \div d)

\* ---------------------------------------------------------------- handlers
\* What a handler did: how it ended, the window it resolved (None when it
\* never got one), the fallback step that gave the window (0: no ladder),
\* the raster reads it issued, whether it called logger.exception, and the
\* exception first raised in its body ("" when none was): an except clause
\* replaces the outcome and leaves thrown as it was.
Result(outcome, win, step, reads, logged) ==
  [outcome |-> outcome, win |-> win, step |-> step, reads |-> reads,
   logged |-> logged,
   thrown |-> IF outcome.kind = "raise" THEN outcome.value ELSE ""]

\* ds.read(1, window=w): the raster and the window handed to the read
WindowRead(raster_id, w) == [raster_id |-> raster_id, window |-> Some(w)]
\* ds.read(1): no window, the whole band
FullRead(raster_id) == [raster_id |-> raster_id, window |-> None]

\* a faulty _compute_window: the far end of the radius window is exclusive
\* (the "+ 1" of lines 362-363 is missing)
_compute_window_exclusive(ds, x, y, r, c, radius_pixels, bbox_raster_crs) ==
  LET d == SubPx(ds)
  IN  IF bbox_raster_crs # None
      THEN LET bb == bbox_raster_crs[1]
               fb == from_bounds(bb[1], bb[2], bb[3], bb[4], ds.transform)
           IN  IF fb = None THEN None
               ELSE Some(round_lengths(round_offsets(fb[1], d), d))
      ELSE LET rad == IF radius_pixels = None THEN 0 ELSE radius_pixels[1]
               rp == Max(0, r - rad)
               cp == Max(0, c - rad)
               rh == Min(ds.height, r + rad)
               cw == Min(ds.width, c + rad)
           IN  Some(Window(d, cp, rp, cw - cp, rh - rp))

\* a faulty _compute_window: the radius is ignored, the center pixel alone
\* is the window
_compute_window_center_only(ds, x, y, r, c, radius_pixels, bbox_raster_crs) ==
  LET d == SubPx(ds)
  IN  IF bbox_raster_crs # None
      THEN LET bb == bbox_raster_crs[1]
               fb == from_bounds(bb[1], bb[2], bb[3], bb[4], ds.transform)
           IN  IF fb = None THEN None
               ELSE Some(round_lengths(round_offsets(fb[1], d), d))
      ELSE Some(Window(d, c, r, 1, 1))

\* _compute_window: None when from_bounds raises WindowError
_compute_window(ds, x, y, r, c, radius_pixels, bbox_raster_crs) ==
  LET d == SubPx(ds)
  IN  IF bbox_raster_crs # None
      THEN LET bb == bbox_raster_crs[1]
               fb == from_bounds(bb[1], bb[2], bb[3], bb[4], ds.transform)
           IN  IF fb = None THEN None
               ELSE Some(round_lengths(round_offsets(fb[1], d), d))
      ELSE LET rad == IF radius_pixels = None THEN 0 ELSE radius_pixels[1]
               rp == Max(0, r - rad)
               cp == Max(0, c - rad)
               rh == Min(ds.height, r + rad + 1)
               cw == Min(ds.width, c + rad + 1)
               height == rh - rp
               width == cw - cp
           IN  Some(Window(d, cp, rp, width, height))

\* a faulty bounds check: the far ends are inclusive
PointInRaster_inclusive(ds, r, c) ==
  0 <= r /\ r <= ds.height /\ 0 <= c /\ c <= ds.width

\* pixel_stats, line 437: 0 <= r < ds.height and 0 <= c < ds.width
PointInRaster(ds, r, c) ==
  0 <= r /\ r < ds.height /\ 0 <= c /\ c < ds.width

\* pixel_stats, line 459: win.width <= 0 or win.height <= 0
EmptyWindow(win) == win.width <= 0 \/ win.height <= 0

\* pixel_stats(q).  q.x, q.y is the query point in the raster's CRS (after
\* lines 430-434), q.bbox the box in the raster's CRS (after lines 444-451).
\* read_fails: ds.read raises.  No try/except: every exception leaves the
\* handler as it is.
pixel_stats(q, read_fails) ==
  LET opened == _open_raster(q.raster_id)
  IN  IF opened.raised # None
      THEN Result(opened.raised[1], None, 0, <<>>, FALSE)
      ELSE
      LET ds == opened.ds[1]
          d == SubPx(ds)
          rc == rowcol(ds.transform, q.x, q.y, 1, "round")
          r == rc[1]
          c == rc[2]
      IN  IF ~PointInRaster(ds, r, c)
          THEN Result(HTTPException(400, "point outside raster extent"),
                      None, 0, <<>>, FALSE)
          ELSE
          LET cwin == _compute_window(ds, q.x, q.y, r, c, q.radius_pixels,
                                      q.bbox)
          IN  IF cwin = None
              THEN Result(Raise("WindowError"), None, 0, <<>>, FALSE)
              ELSE
              LET iwin == intersection(cwin[1], FullWindow(ds))
              IN  IF iwin = None
                  THEN Result(Raise("WindowError"), None, 0, <<>>, FALSE)
                  ELSE
                  LET win == round_lengths(round_offsets(iwin[1], d), d)
                  IN  IF EmptyWindow(win)
                      THEN Result(HTTPException(400, "empty window"),
                                  Some(win), 0, <<>>, FALSE)
                      ELSE IF read_fails
                      THEN Result(Raise("RasterioIOError"), Some(win), 0,
                                  <<WindowRead(q.raster_id, win)>>, FALSE)
                      ELSE Result(Return("WindowStatsOut"), Some(win), 0,
                                  <<WindowRead(q.raster_id, win)>>, FALSE)

\* _safe_window_for_geom: the "safe window" of geometry g.  g is an axis-parallel
\* box (a point or a segment when it is degenerate): g.bounds are its four
\* fields and g.centroid is its midpoint.  window is None when a rasterio
\* call inside raises WindowError; step is the rung that gave the window.
_safe_window_for_geom(dataset, g) ==
  LET d == SubPx(dataset)
      t == dataset.transform
      fb == from_bounds(g.minx, g.miny, g.maxx, g.maxy, t)
  IN  IF fb = None THEN [window |-> None, step |-> 1]
      ELSE
      LET w1 == intersection(round_lengths(round_offsets(fb[1], d), d),
                             FullWindow(dataset))
      IN  IF w1 = None THEN [window |-> None, step |-> 1]
          ELSE IF Trunc(w1[1].width, d) > 0 /\ Trunc(w1[1].height, d) > 0
          THEN [window |-> w1, step |-> 1]
          ELSE
          \* pad by half a pixel and retry; dataset.res = (a, -e), both even
          LET xres == t.a
              yres == 0 - t.e
              fbpad == from_bounds(g.minx - xres \div 2, g.miny - yres \div 2,
                                   g.maxx + xres \div 2, g.maxy + yres \div 2,
                                   t)
          IN  IF fbpad = None THEN [window |-> None, step |-> 2]
              ELSE
              LET w2 == intersection(
                          round_lengths(round_offsets(fbpad[1], d), d),
                          FullWindow(dataset))
              IN  IF w2 = None THEN [window |-> None, step |-> 2]
                  ELSE IF Trunc(w2[1].width, d) = 0
                          \/ Trunc(w2[1].height, d) = 0
                  THEN \* fallback: centroid pixel
                       LET rc == rowcol(t, g.minx + g.maxx, g.miny + g.maxy,
                                        2, "floor")
                           rr == Min(Max(rc[1], 0), dataset.height - 1)
                           cc == Min(Max(rc[2], 0), dataset.width - 1)
                       IN  [window |-> Some(Window(d, cc, rr, 1, 1)),
                            step |-> 3]
                  ELSE [window |-> w2, step |-> 2]

\* scatter_safe_window_for_geom: the copy of the ladder in geometry_scatter; g is an axis-parallel
\* box (a point or a segment when it is degenerate): g.bounds are its four
\* fields and g.centroid is its midpoint.  window is None when a rasterio
\* call inside raises WindowError; step is the rung that gave the window.
scatter_safe_window_for_geom(dataset, g) ==
  LET d == SubPx(dataset)
      t == dataset.transform
      fb == from_bounds(g.minx, g.miny, g.maxx, g.maxy, t)
  IN  IF fb = None THEN [window |-> None, step |-> 1]
      ELSE
      LET w1 == intersection(round_lengths(round_offsets(fb[1], d), d),
                             FullWindow(dataset))
      IN  IF w1 = None THEN [window |-> None, step |-> 1]
          ELSE IF Trunc(w1[1].width, d) > 0 /\ Trunc(w1[1].height, d) > 0
          THEN [window |-> w1, step |-> 1]
          ELSE
          \* pad by half a pixel and retry; dataset.res = (a, -e), both even
          LET xres == t.a
              yres == 0 - t.e
              fbpad == from_bounds(g.minx - xres \div 2, g.miny - yres \div 2,
                                   g.maxx + xres \div 2, g.maxy + yres \div 2,
                                   t)
          IN  IF fbpad = None THEN [window |-> None, step |-> 2]
              ELSE
              LET w2 == intersection(
                          round_lengths(round_offsets(fbpad[1], d), d),
                          FullWindow(dataset))
              IN  IF w2 = None THEN [window |-> None, step |-> 2]
                  ELSE IF Trunc(w2[1].width, d) = 0
                          \/ Trunc(w2[1].height, d) = 0
                  THEN \* fallback: centroid pixel
                       LET rc == rowcol(t, g.minx + g.maxx, g.miny + g.maxy,
                                        2, "floor")
                           rr == Min(Max(rc[1], 0), dataset.height - 1)
                           cc == Min(Max(rc[2], 0), dataset.width - 1)
                       IN  [window |-> Some(Window(d, cc, rr, 1, 1)),
                            step |-> 3]
                  ELSE [window |-> w2, step |-> 2]

\* data.size of the array read through window w (boundless read)
DataSize(w, d) == Trunc(w.width, d) * Trunc(w.height, d)

\* the try block of geometry_stats (lines 630-788)
geometry_stats_try(q, read_fails) ==
  LET opened == _open_raster(q.raster_id)
  IN  IF opened.raised # None
      THEN Result(opened.raised[1], None, 0, <<>>, FALSE)
      ELSE
      LET ds == opened.ds[1]
          sw == _safe_window_for_geom(ds, q.geometry[1])
      IN  IF sw.window = None
          THEN Result(Raise("WindowError"), None, sw.step, <<>>, FALSE)
          ELSE
          LET window == sw.window[1]
              rd == <<WindowRead(q.raster_id, window)>>
          IN  IF read_fails
              THEN Result(Raise("RasterioIOError"), sw.window, sw.step, rd,
                          FALSE)
              ELSE IF DataSize(window, SubPx(ds)) = 0
              THEN Result(HTTPException(400, "Empty read window"),
                          sw.window, sw.step, rd, FALSE)
              ELSE Result(Return("StatsOut"), sw.window, sw.step, rd, FALSE)

\* geometry_stats, lines 789-790: "except Exception" takes every exception
\* of the try block, HTTPException included, logs it and falls off the end
\* of the function, which returns None
geometry_stats_except(res) ==
  [res EXCEPT !.outcome = Return("None"), !.logged = TRUE]

\* geometry_stats(q)
geometry_stats(q, read_fails) ==
  LET res == geometry_stats_try(q, read_fails)
  IN  IF res.outcome.kind = "raise" THEN geometry_stats_except(res) ELSE res

\* the try block of geometry_scatter (lines 796-992).  fail_at: which read
\* raises (1: raster x through the window, 2: raster y, read whole), 0: none
geometry_scatter_try(q, fail_at) ==
  LET openx == _open_raster(q.raster_id)
  IN  IF openx.raised # None
      THEN Result(openx.raised[1], None, 0, <<>>, FALSE)
      ELSE
      LET openy == _open_raster(q.raster_id_y)
      IN  IF openy.raised # None
          THEN Result(openy.raised[1], None, 0, <<>>, FALSE)
          ELSE
          LET dsx == openx.ds[1]
              sw == scatter_safe_window_for_geom(dsx, q.geometry[1])
          IN  IF sw.window = None
              THEN Result(Raise("WindowError"), None, sw.step, <<>>, FALSE)
              ELSE
              LET win_x == sw.window[1]
                  rdx == <<WindowRead(q.raster_id, win_x)>>
                  rdy == <<FullRead(q.raster_id_y)>>
              IN  IF fail_at = 1
                  THEN Result(Raise("RasterioIOError"), sw.window, sw.step,
                              rdx, FALSE)
                  ELSE IF DataSize(win_x, SubPx(dsx)) = 0
                  THEN Result(HTTPException(400, "Empty read window"),
                              sw.window, sw.step, rdx, FALSE)
                  ELSE IF fail_at = 2
                  THEN Result(Raise("RasterioIOError"), sw.window, sw.step,
                              rdx \o rdy, FALSE)
                  ELSE Result(Return("ScatterOut"), sw.window, sw.step,
                              rdx \o rdy, FALSE)

\* geometry_scatter, lines 993-999: an HTTPException is raised again as it
\* is; any other exception is logged and replaced by a 500
geometry_scatter_except(res) ==
  IF res.outcome.value = "HTTPException"
  THEN res
  ELSE [res EXCEPT !.outcome = HTTPException(500, "Scatter computation failed."),
                   !.logged = TRUE]

\* geometry_scatter(q)
geometry_scatter(q, fail_at) ==
  LET res == geometry_scatter_try(q, fail_at)
  IN  IF res.outcome.kind = "raise" THEN geometry_scatter_except(res) ELSE res

\* minmax_stats, lines 596-598: "except Exception" takes every exception of
\* the try block, HTTPException included, logs it and raises a 500
minmax_stats_except(res) ==
  [res EXCEPT !.outcome = HTTPException(500, "Failed to compute min/max"),
              !.logged = TRUE]

\* minmax_stats, line 591: _sample_percentiles(ds, 10, 0.05)
SAMPLES == 10

\* _sample_percentiles, lines 550-552: int(n * frac) with frac = 0.05
SampleLength(n) == (n * 5) \div 100

\* ---------------------------------------------------------------- values
\* A pixel value after .astype("float64"): a finite number (an integer here),
\* NaN or +Inf.  Statistics that are not integers are kept exactly: a
\* rational as numerator and denominator, a square root by its radicand.
Fin(n) == [k |-> "fin", v |-> n]
NaN == [k |-> "nan", v |-> 0]
Inf == [k |-> "inf", v |-> 0]
Rat(num, den) == [num |-> num, den |-> den]
Sqrt(r) == [sqrt_of |-> r]

Abs(n) == IF n < 0 THEN 0 - n ELSE n

\* np.isfinite
isfinite(x) == x.k = "fin"

\* np.isclose(a, b) with the default rtol = 1e-5, atol = 1e-8, equal_nan =
\* False: |a - b| <= atol + rtol * |b| when both are finite, a == b otherwise
\* (NaN equals nothing).  For integers the bound is floor(atol + rtol * |b|).
isclose(a, b) ==
  IF isfinite(a) /\ isfinite(b)
  THEN Abs(a.v - b.v) <= (1 + 1000 * Abs(b.v)) \div 100000000
  ELSE a.k = "inf" /\ b.k = "inf"

\* arr[m] for a boolean array m: the elements at the TRUE positions, in order
RECURSIVE BoolIndexFrom(_, _, _)
BoolIndexFrom(arr, m, i) ==
  IF i > Len(arr) THEN <<>>
  ELSE (IF m[i] THEN <<arr[i]>> ELSE <<>>) \o BoolIndexFrom(arr, m, i + 1)

BoolIndex(arr, m) == BoolIndexFrom(arr, m, 1)

\* np.count_nonzero of a boolean array
count_nonzero(m) == Cardinality({i \in 1..Len(m) : m[i]})

\* the numbers of an array of finite values
Numbers(arr) == [i \in 1..Len(arr) |-> arr[i].v]

RECURSIVE SeqSum(_)
SeqSum(s) == IF s = <<>> THEN 0 ELSE Head(s) + SeqSum(Tail(s))

SumOfProducts(s, t) == SeqSum([i \in 1..Len(s) |-> s[i] * t[i]])

\* np.min, np.max, np.ptp of a non-empty array
np_min(s) == CHOOSE x \in {s[i] : i \in 1..Len(s)} :
               \A i \in 1..Len(s) : x <= s[i]
np_max(s) == CHOOSE x \in {s[i] : i \in 1..Len(s)} :
               \A i \in 1..Len(s) : x >= s[i]
np_ptp(s) == np_max(s) - np_min(s)

np_sort(s) == SortSeq(s, LAMBDA a, b : a < b)

\* np.mean and np.median of a non-empty array
np_mean(s) == Rat(SeqSum(s), Len(s))
np_median(s) ==
  LET sorted == np_sort(s)
      n == Len(s)
  IN  Rat(sorted[(n + 1) \div 2] + sorted[(n + 2) \div 2], 2)

\* a faulty deviation: the population one, ddof = 0 (divisor n)
np_std_ddof0(s) ==
  LET n == Len(s)
  IN  Sqrt(Rat(n * SumOfProducts(s, s) - SeqSum(s) * SeqSum(s), n * n))

\* np.std(s, ddof=1) of an array of more than one element: the square root
\* of sum((x - mean)^2) / (n - 1)
np_std_ddof1(s) ==
  LET n == Len(s)
  IN  Sqrt(Rat(n * SumOfProducts(s, s) - SeqSum(s) * SeqSum(s), n * (n - 1)))

\* four times np.percentile(s, 25 * p) (linear interpolation), p in {1, 3}
Percentile4(s, p) ==
  LET sorted == np_sort(s)
      pos == p * (Len(s) - 1)
      lo == pos \div 4 + 1
      r == pos % 4
  IN  IF r = 0 THEN 4 * sorted[lo]
      ELSE 4 * sorted[lo] + r * (sorted[lo + 1] - sorted[lo])

\* np.histogram(vals, bins=bins, range=range) of a non-empty array: None
\* when it raises ValueError (range with max < min), else the counts of the
\* bins equal-width bins between the first and the last edge, the last bin
\* closed on both sides; edges are (min - 0.5, max + 0.5) when min = max.
\* Edges are kept doubled.
np_histogram(vals, bins, range) ==
  LET lo == IF range = None THEN np_min(vals) ELSE range[1][1]
      hi == IF range = None THEN np_max(vals) ELSE range[1][2]
  IN  IF lo > hi THEN None
      ELSE
      LET first_edge == IF lo = hi THEN 2 * lo - 1 ELSE 2 * lo
          last_edge == IF lo = hi THEN 2 * hi + 1 ELSE 2 * hi
          keep == {i \in 1..Len(vals) :
                     first_edge <= 2 * vals[i] /\ 2 * vals[i] <= last_edge}
          bin(v) == IF 2 * v = last_edge THEN bins
                    ELSE ((2 * v - first_edge) * bins)
                           \div (last_edge - first_edge) + 1
      IN  Some([b \in 1..bins |->
                  Cardinality({i \in keep : bin(vals[i]) = b})])

\* ---------------------------------------------------------------- statistics
\* What the value stage of a handler gives: how it ended and the fields of
\* the response it built (None fields when it raised).
Response(outcome, fields) ==
  [outcome |-> outcome, fields |-> fields, logged |-> FALSE]

\* pixel_stats, lines 463-466: the pixels that are left out
pixel_stats_mask(arr, nodata) ==
  [i \in 1..Len(arr) |->
     (nodata # None /\ isclose(arr[i], nodata[1])) \/ ~isfinite(arr[i])]

\* pixel_stats, lines 462-524, after the window was read: arr is the window's
\* content, px_area is _area_per_pixel_m2(ds)
pixel_stats_values(arr, nodata, histogram_bins, histogram_range, px_area) ==
  LET mask == pixel_stats_mask(arr, nodata)
      vals == Numbers(BoolIndex(arr, [i \in 1..Len(arr) |-> ~mask[i]]))
      count_valid == Len(vals)
      count_all == Len(arr)
  IN  IF count_valid = 0
      THEN Response(Return("WindowStatsOut"),
             [stats |-> [count |-> 0, min |-> None, max |-> None,
                         mean |-> None, median |-> None, std |-> None,
                         full_area_m2 |-> None, non_nodata_area_m2 |-> None],
              histogram |-> [hist |-> Some(<<>>), count |-> 0]])
      ELSE
      LET bins == IF histogram_bins # 0 THEN histogram_bins ELSE 16
          hist == np_histogram(vals, bins, histogram_range)
      IN  IF hist = None
          THEN Response(Raise("ValueError"), None)
          ELSE Response(Return("WindowStatsOut"),
                 [stats |->
                    [count |-> count_valid,
                     min |-> Some(np_min(vals)),
                     max |-> Some(np_max(vals)),
                     mean |-> Some(np_mean(vals)),
                     median |-> Some(np_median(vals)),
                     std |-> Some(IF count_valid > 1 THEN np_std_ddof1(vals)
                                  ELSE Sqrt(Rat(0, 1))),
                     full_area_m2 |->
                       IF px_area # None THEN Some(px_area[1] * count_all)
                       ELSE None,
                     non_nodata_area_m2 |->
                       IF px_area # None THEN Some(px_area[1] * count_valid)
                       ELSE None],
                  histogram |-> [hist |-> hist, count |-> count_valid]])

\* a faulty masking: the polygon mask of line 699 is not applied
geometry_stats_arr_unmasked(data, mask, nodata) ==
  [i \in 1..Len(data) |->
     IF nodata # None /\ isclose(data[i], nodata[1]) THEN NaN ELSE data[i]]

\* geometry_stats, lines 695-699: nodata and the pixels outside the polygon
\* become NaN
geometry_stats_arr(data, mask, nodata) ==
  LET arr == [i \in 1..Len(data) |->
                IF nodata # None /\ isclose(data[i], nodata[1]) THEN NaN
                ELSE data[i]]
  IN  [i \in 1..Len(data) |-> IF mask[i] THEN arr[i] ELSE NaN]

\* a^3 >= b for 0 <= a and 0 <= b < 2^31, without leaving 32 bits: the cube
\* of a number above 1290 is above 2^31
CubeAtLeast(a, b) == a > 1290 \/ a * a * a >= b

\* geometry_stats, lines 732-738: int(np.ceil(np.ptp(vals) / bin_width)) with
\* bin_width = 2 * iqr * n ** (-1/3), or ptp / 10, or 1 when that is zero.
\* iqr4 is four times the interquartile range.  In exact arithmetic:
\* ceil(ptp * n^(1/3) / (2 * iqr)) is the least k with
\* (k * iqr4)^3 >= 8 * n * ptp^3, and it is at most 2 * ptp * n.
num_bins_fd(ptp, iqr4, n) ==
  IF iqr4 = 0
  THEN IF ptp = 0 THEN 0 ELSE 10
  ELSE LET enough == {k \in 0..(2 * ptp * n) :
                        CubeAtLeast(k * iqr4, 8 * n * ptp * ptp * ptp)}
       IN  CHOOSE k \in enough : \A j \in enough : k <= j

\* geometry_stats, line 740: max(1, min(num_bins_fd, 64))
num_bins(num_bins_fd_) == Max(1, Min(num_bins_fd_, 64))

\* a faulty coverage ratio: no guard against an empty mask
coverage_ratio_unguarded(valid_pixels, total_mask_pixels) ==
  Rat(valid_pixels, total_mask_pixels)

\* geometry_stats, lines 766-770 (geometry_scatter, lines 986-990):
\* valid_pixels / total_mask_pixels if total_mask_pixels else 0.0
coverage_ratio(valid_pixels, total_mask_pixels) ==
  IF total_mask_pixels # 0 THEN Rat(valid_pixels, total_mask_pixels)
  ELSE Rat(0, 1)

\* a faulty guard: the statistics are left out for a single value too
geometry_stats_stats_two_or_more(vals) ==
  LET size == Len(vals)
  IN  IF size > 1
      THEN LET iqr4 == Percentile4(vals, 3) - Percentile4(vals, 1)
               bins == num_bins(num_bins_fd(np_ptp(vals), iqr4, size))
           IN  [count |-> size,
                min |-> Some(np_min(vals)),
                max |-> Some(np_max(vals)),
                mean |-> Some(np_mean(vals)),
                median |-> Some(np_median(vals)),
                sum |-> Some(SeqSum(vals)),
                std |-> Some(np_std_ddof1(vals)),
                hist |-> np_histogram(vals, bins, None)]
      ELSE [count |-> size, min |-> None, max |-> None, mean |-> None,
            median |-> None, sum |-> None, std |-> None, hist |-> None]

\* geometry_stats, lines 706-748: the statistics of the valid values
geometry_stats_stats(vals) ==
  LET size == Len(vals)
  IN  IF size > 0
      THEN LET iqr4 == Percentile4(vals, 3) - Percentile4(vals, 1)
               bins == num_bins(num_bins_fd(np_ptp(vals), iqr4, size))
           IN  [count |-> size,
                min |-> Some(np_min(vals)),
                max |-> Some(np_max(vals)),
                mean |-> Some(np_mean(vals)),
                median |-> Some(np_median(vals)),
                sum |-> Some(SeqSum(vals)),
                std |-> Some(IF size > 1 THEN np_std_ddof1(vals)
                             ELSE Sqrt(Rat(0, 1))),
                hist |-> np_histogram(vals, bins, None)]
      ELSE [count |-> size, min |-> None, max |-> None, mean |-> None,
            median |-> None, sum |-> None, std |-> None, hist |-> None]

\* a faulty count of valid pixels: whatever is not NaN counts
valid_pixels_not_nan(arr) ==
  count_nonzero([i \in 1..Len(arr) |-> arr[i].k # "nan"])

\* geometry_stats, line 755: np.count_nonzero(np.isfinite(arr))
valid_pixels_of(arr) ==
  count_nonzero([i \in 1..Len(arr) |-> isfinite(arr[i])])

\* geometry_stats, lines 694-788, after the window was read: data is the
\* window's content, mask the geometry mask of lines 686-692 (TRUE inside
\* the polygon), pixel_area = abs(det) of line 753
geometry_stats_values(data, mask, nodata, pixel_area) ==
  LET arr == geometry_stats_arr(data, mask, nodata)
      finite == [i \in 1..Len(arr) |-> isfinite(arr[i])]
      vals == Numbers(BoolIndex(arr, finite))
      total_mask_pixels == count_nonzero(mask)
      valid_pixels == valid_pixels_of(arr)
      nodata_pixels == total_mask_pixels - valid_pixels
      area_stats ==
        [pixel_area |-> pixel_area,
         window_mask_pixels |-> total_mask_pixels,
         valid_pixels |-> valid_pixels,
         nodata_pixels |-> nodata_pixels,
         window_mask_area_m2 |-> total_mask_pixels * pixel_area,
         valid_area_m2 |-> valid_pixels * pixel_area,
         nodata_area_m2 |-> nodata_pixels * pixel_area,
         coverage_ratio |-> coverage_ratio(valid_pixels, total_mask_pixels)]
      stats == geometry_stats_stats(vals)
  IN  Response(Return("StatsOut"), [stats |-> stats, area |-> area_stats])

\* ---------------------------------------------------------------- scatter
\* geometry_scatter, lines 860-863: nodata of raster x and the pixels
\* outside the polygon become NaN
geometry_scatter_arr_x(data_x, mask, nodata_x) ==
  LET arr_x == [i \in 1..Len(data_x) |->
                  IF nodata_x # None /\ isclose(data_x[i], nodata_x[1])
                  THEN NaN ELSE data_x[i]]
  IN  [i \in 1..Len(data_x) |-> IF mask[i] THEN arr_x[i] ELSE NaN]

\* geometry_scatter, line 880: np.where(mask, dest_y, np.nan)
geometry_scatter_arr_y(dest_y, mask) ==
  [i \in 1..Len(dest_y) |-> IF mask[i] THEN dest_y[i] ELSE NaN]

\* a faulty pairing: the values of raster y are not looked at
finite_mask_x_only(arr_x, arr_y) ==
  [i \in 1..Len(arr_x) |-> isfinite(arr_x[i])]

\* geometry_scatter, line 883: np.isfinite(arr_x) & np.isfinite(arr_y)
finite_mask(arr_x, arr_y) ==
  [i \in 1..Len(arr_x) |-> isfinite(arr_x[i]) /\ isfinite(arr_y[i])]

\* a float that may be NaN: the quotient num / sqrt(den2), NaN when it is 0/0
Quotient(k, num, den2) == [k |-> k, num |-> num, den2 |-> den2]

\* np.corrcoef(x, y)[0, 1] of two arrays of n > 1 numbers:
\* cov / sqrt(var_x * var_y), each taken n^2-fold; 0 / 0 = NaN when an
\* array is constant
np_corrcoef(x, y) ==
  LET n == Len(x)
      cov == n * SumOfProducts(x, y) - SeqSum(x) * SeqSum(y)
      var_x == n * SumOfProducts(x, x) - SeqSum(x) * SeqSum(x)
      var_y == n * SumOfProducts(y, y) - SeqSum(y) * SeqSum(y)
  IN  IF var_x = 0 \/ var_y = 0 THEN Quotient("nan", 0, 0)
      ELSE Quotient("fin", cov, var_x * var_y)

\* np.linalg.lstsq(vstack([x, 1]).T, y, rcond=None)[0] for n > 1 numbers:
\* the least-squares line; when x is constant (= c) the matrix has rank 1
\* and the solution of least norm is mean(y) * (c, 1) / (c^2 + 1)
np_linalg_lstsq(x, y) ==
  LET n == Len(x)
      cov == n * SumOfProducts(x, y) - SeqSum(x) * SeqSum(y)
      var_x == n * SumOfProducts(x, x) - SeqSum(x) * SeqSum(x)
      c == x[1]
  IN  IF var_x # 0
      THEN [slope |-> Rat(cov, var_x),
            intercept |-> Rat(SeqSum(y) * var_x - cov * SeqSum(x), n * var_x)]
      ELSE [slope |-> Rat(c * SeqSum(y), n * (c * c + 1)),
            intercept |-> Rat(SeqSum(y), n * (c * c + 1))]

\* the bin (1..bins) of v among bins equal-width bins over min(s)..max(s),
\* the last bin closed; over min - 0.5 .. max + 0.5 when min = max
BinOf(v, s, bins) ==
  LET lo == np_min(s)
      hi == np_max(s)
      first_edge == IF lo = hi THEN 2 * lo - 1 ELSE 2 * lo
      last_edge == IF lo = hi THEN 2 * hi + 1 ELSE 2 * hi
  IN  IF 2 * v = last_edge THEN bins
      ELSE ((2 * v - first_edge) * bins) \div (last_edge - first_edge) + 1

\* np.histogram2d(x, y, bins=bins)[0]: H[i][j] counts the pairs whose x is in
\* bin i and whose y is in bin j
np_histogram2d(x, y, bins) ==
  [i \in 1..bins |-> [j \in 1..bins |->
     Cardinality({p \in 1..Len(x) : /\ BinOf(x[p], x, bins) = i
                                    /\ BinOf(y[p], y, bins) = j})]]

\* geometry_scatter, lines 926-927: x_vals[idx], y_vals[idx]
downsample(x_vals, y_vals, idx) ==
  [x_plot |-> [p \in 1..Len(idx) |-> x_vals[idx[p]]],
   y_plot |-> [p \in 1..Len(idx) |-> y_vals[idx[p]]]]

\* a faulty empty answer: the fields are left at their defaults
ScatterOut_defaults(mask) ==
  [n_pairs |-> 0, x |-> None, y |-> None, hist2d |-> None, corr |-> None,
   slope |-> None, intercept |-> None, window_mask_pixels |-> None,
   valid_pixels |-> None, coverage_ratio |-> None]

\* geometry_scatter, lines 892-920: the ScatterOut of an empty paired sample
ScatterOut_empty(mask) ==
  [n_pairs |-> 0, x |-> None, y |-> None, hist2d |-> None, corr |-> None,
   slope |-> None, intercept |-> None,
   window_mask_pixels |-> Some(count_nonzero(mask)),
   valid_pixels |-> Some(0), coverage_ratio |-> Some(Rat(0, 1))]

\* what the value stage of geometry_scatter gives: the response and the
\* paired sample (x_vals, y_vals) it was built from
ScatterResponse(outcome, fields, x_vals, y_vals) ==
  [outcome |-> outcome, fields |-> fields, logged |-> FALSE,
   x_vals |-> x_vals, y_vals |-> y_vals]

\* geometry_scatter, lines 859-992, after the window of raster x was read:
\* data_x is the window's content, mask the geometry mask of lines 851-857,
\* dest_y what reproject (lines 866-877) wrote for raster y on the same
\* grid (NaN where y has nodata or no data).  idx is what rng.choice
\* returns at line 925, 1-based (whenever it is called with size >= 0).
geometry_scatter_values(data_x, mask, nodata_x, dest_y, max_points, q_bins, idx) ==
  LET arr_x == geometry_scatter_arr_x(data_x, mask, nodata_x)
      arr_y == geometry_scatter_arr_y(dest_y, mask)
      fm == finite_mask(arr_x, arr_y)
      x_vals == Numbers(BoolIndex(arr_x, fm))
      y_vals == Numbers(BoolIndex(arr_y, fm))
      n_pairs == Len(x_vals)
  IN  IF n_pairs = 0
      THEN ScatterResponse(Return("ScatterOut"), ScatterOut_empty(mask),
                           x_vals, y_vals)
      ELSE IF n_pairs > max_points /\ max_points < 0
      THEN \* rng.choice(n_pairs, size=max_points) raises ValueError
           ScatterResponse(Raise("ValueError"), None, x_vals, y_vals)
      ELSE
      LET plot == IF n_pairs > max_points
                  THEN downsample(x_vals, y_vals, idx)
                  ELSE [x_plot |-> x_vals, y_plot |-> y_vals]
          fit == np_linalg_lstsq(x_vals, y_vals)
          bins == Max(1, Min(256, q_bins))
          total_mask_pixels == count_nonzero(mask)
          valid_pixels == n_pairs
      IN  ScatterResponse(Return("ScatterOut"),
            [n_pairs |-> n_pairs,
             x |-> Some(plot.x_plot),
             y |-> Some(plot.y_plot),
             hist2d |-> Some(np_histogram2d(x_vals, y_vals, bins)),
             corr |-> IF n_pairs > 1 THEN Some(np_corrcoef(x_vals, y_vals))
                      ELSE None,
             slope |-> IF n_pairs > 1 THEN Some(fit.slope) ELSE None,
             intercept |-> IF n_pairs > 1 THEN Some(fit.intercept) ELSE None,
             window_mask_pixels |-> Some(total_mask_pixels),
             valid_pixels |-> Some(valid_pixels),
             coverage_ratio |->
               Some(coverage_ratio(valid_pixels, total_mask_pixels))],
            x_vals, y_vals)

\* ---------------------------------------------------------------- requests
VARIABLES phase, call, outcome, thrown, win, step, reads, logged, n_sampled

\* the value stage of a handler on its own: the arrays it works on (sample)
\* and what it made of them (resp)
VARIABLES sample, resp

reqvars == <<phase, call, outcome, thrown, win, step, reads, logged, n_sampled>>
valvars == <<sample, resp>>

\* the random generators: np_random is the module-wide generator behind
\* np.random.randint; each thread serving POST /stats/scatter has its
\* position (pc), the max_points of its request, its local generator rng and
\* the (x_plot, y_plot) it made; answers is what went out so far
VARIABLES np_random, pc, q_max_points, rng, plot, answers

rngvars == <<np_random, pc, q_max_points, rng, plot, answers>>

\* the scripts (geoserver_register.py, raster_manifest_builder.py), one
\* function running at a time: frame is where the function is, locals its
\* arguments and local variables, trace what it did to the outside (requests
\* with their answers, sleeps, files, tasks) and result how it ended
VARIABLES frame, locals, trace, result

scriptvars == <<frame, locals, trace, result>>
vars == <<reqvars, valvars, rngvars, scriptvars>>

\* the state of a bit generator: the seed it was made from and the number of
\* values drawn from it since
Generator(seed, pos) == [seed |-> seed, pos |-> pos]

\* the worker threads of the server's thread pool (the handlers are plain
\* def functions, which FastAPI runs in threads)
Threads == {1, 2}

\* a request: the endpoint and the fields of its input model that the
\* handler uses (the others are None)
Call(endpoint, raster_id, raster_id_y, x, y, radius_pixels, bbox, geometry) ==
  [endpoint |-> endpoint, raster_id |-> raster_id,
   raster_id_y |-> raster_id_y, x |-> x, y |-> y,
   radius_pixels |-> radius_pixels, bbox |-> bbox, geometry |-> geometry]

NoCall == Call("", "", "", 0, 0, None, None, None)

\* the dataset whose extent the enumerated coordinates surround
ExtentOf(raster_id) ==
  IF raster_id \in DOMAIN REGISTRY THEN REGISTRY[raster_id] ELSE REGISTRY.gone

\* world x (y) coordinates from Margin left of (below) the raster to Margin
\* right of (above) it, every grain-th one
XCoords(raster_id, grain) ==
  LET ds == ExtentOf(raster_id)
      lo == ds.transform.c - Margin
      hi == ds.transform.c + ds.width * ds.transform.a + Margin
  IN  {x \in lo..hi : (x - lo) % grain = 0}

YCoords(raster_id, grain) ==
  LET ds == ExtentOf(raster_id)
      lo == ds.transform.f + ds.height * ds.transform.e - Margin
      hi == ds.transform.f + Margin
  IN  {y \in lo..hi : (y - lo) % grain = 0}

\* spacing of the enumerated coordinates: every world unit (a quarter pixel)
\* on the small raster, coarser elsewhere
PointGrain(raster_id) ==
  IF raster_id \in {"small", "grid10"} THEN 1 ELSE 5
BoxGrain(raster_id) ==
  IF raster_id = "small" THEN 1 ELSE IF raster_id = "grid10" THEN 11 ELSE 5
BBoxGrain(raster_id) ==
  IF raster_id = "small" THEN 2 ELSE IF raster_id = "grid10" THEN 11 ELSE 5

Radii == {None} \cup {Some(n) : n \in 0..MaxRadius}

\* a geometry: the box minx <= maxx, miny <= maxy (shapely bounds are
\* ordered); a segment or a point when it is degenerate
Box(x1, y1, x2, y2) == [minx |-> x1, miny |-> y1, maxx |-> x2, maxy |-> y2]

\* query points sent along with a bbox: one outside the raster, one inside
BBoxPoints(raster_id) ==
  LET ds == ExtentOf(raster_id)
      t == ds.transform
  IN  { <<t.c - Margin, t.f + Margin>>,
        <<t.c + (ds.width * t.a) \div 2, t.f + (ds.height * t.e) \div 2>> }

Init ==
  /\ phase = "idle"
  /\ call = NoCall
  /\ outcome = Pending
  /\ thrown = ""
  /\ win = None
  /\ step = 0
  /\ reads = <<>>
  /\ logged = FALSE
  /\ n_sampled = 0
  /\ sample = None
  /\ resp = None
  /\ np_random = Generator(1, 0)
  /\ pc = [t \in Threads |-> "idle"]
  /\ q_max_points = [t \in Threads |-> None]
  /\ rng = [t \in Threads |-> None]
  /\ plot = [t \in Threads |-> None]
  /\ answers = <<>>
  /\ frame = "idle"
  /\ locals = None
  /\ trace = <<>>
  /\ result = Pending

\* the handler ran to its end with result res
Finish(q, res) ==
  /\ phase' = "done"
  /\ call' = q
  /\ outcome' = res.outcome
  /\ thrown' = res.thrown
  /\ win' = res.win
  /\ step' = res.step
  /\ reads' = res.reads
  /\ logged' = res.logged
  /\ UNCHANGED n_sampled
  /\ UNCHANGED <<valvars, rngvars, scriptvars>>

\* POST /stats/pixel with a point and an optional radius
PixelStats ==
  /\ phase = "idle"
  /\ \E id \in RasterIds :
       \E x \in XCoords(id, PointGrain(id)), y \in YCoords(id, PointGrain(id)),
          rad \in Radii, read_fails \in BOOLEAN :
         LET q == Call("pixel_stats", id, "", x, y, rad, None, None)
         IN  Finish(q, pixel_stats(q, read_fails))

\* POST /stats/pixel with a bbox: any four numbers (minx, miny, maxx, maxy)
PixelStatsBBox ==
  /\ phase = "idle"
  /\ \E id \in RasterIds :
       \E pt \in BBoxPoints(id), rad \in {None, Some(MaxRadius)},
          x1 \in XCoords(id, BBoxGrain(id)), x2 \in XCoords(id, BBoxGrain(id)),
          y1 \in YCoords(id, BBoxGrain(id)), y2 \in YCoords(id, BBoxGrain(id)),
          read_fails \in BOOLEAN :
         LET q == Call("pixel_stats", id, "", pt[1], pt[2], rad,
                       Some(<<x1, y1, x2, y2>>), None)
         IN  Finish(q, pixel_stats(q, read_fails))

\* POST /stats/geometry
GeometryStats ==
  /\ phase = "idle"
  /\ \E id \in RasterIds :
       \E x1 \in XCoords(id, BoxGrain(id)), y1 \in YCoords(id, BoxGrain(id)) :
         \E x2 \in {x \in XCoords(id, BoxGrain(id)) : x1 <= x},
            y2 \in {y \in YCoords(id, BoxGrain(id)) : y1 <= y},
            read_fails \in BOOLEAN :
           LET q == Call("geometry_stats", id, "", 0, 0, None, None,
                         Some(Box(x1, y1, x2, y2)))
           IN  Finish(q, geometry_stats(q, read_fails))

\* POST /stats/scatter
GeometryScatter ==
  /\ phase = "idle"
  /\ \E idx \in RasterIds, idy \in RasterIds :
       \E x1 \in XCoords(idx, BoxGrain(idx)),
          y1 \in YCoords(idx, BoxGrain(idx)) :
         \E x2 \in {x \in XCoords(idx, BoxGrain(idx)) : x1 <= x},
            y2 \in {y \in YCoords(idx, BoxGrain(idx)) : y1 <= y},
            fail_at \in 0..2 :
           LET q == Call("geometry_scatter", idx, idy, 0, 0, None, None,
                         Some(Box(x1, y1, x2, y2)))
           IN  Finish(q, geometry_scatter(q, fail_at))

\* POST /stats/minmax, up to the first sample: _open_raster and the sizes
\* of the sample windows
MinmaxStats ==
  /\ phase = "idle"
  /\ \E id \in RasterIds :
       LET q == Call("minmax_stats", id, "", 0, 0, None, None, None)
           opened == _open_raster(id)
       IN  IF opened.raised # None
           THEN Finish(q, minmax_stats_except(
                            Result(opened.raised[1], None, 0, <<>>, FALSE)))
           ELSE /\ phase' = "sampling"
                /\ call' = q
                /\ n_sampled' = 0
                /\ UNCHANGED <<outcome, thrown, win, step, reads, logged>>
                /\ UNCHANGED <<valvars, rngvars, scriptvars>>

\* one round of the loop of _sample_percentiles: np.random.randint(0, high)
\* draws from 0..high-1 and raises ValueError when high <= 0; reads holds
\* the read of this round
SamplePercentiles ==
  /\ phase = "sampling"
  /\ n_sampled < SAMPLES
  /\ LET ds == REGISTRY[call.raster_id]
         window_height == SampleLength(ds.height)
         window_width == SampleLength(ds.width)
         row_high == ds.height - window_height
         col_high == ds.width - window_width
     IN  IF row_high <= 0 \/ col_high <= 0
         THEN Finish(call, minmax_stats_except(
                       Result(Raise("ValueError"), win, 0, reads, FALSE)))
         ELSE \E row_offset \in 0..(row_high - 1),
                 col_offset \in 0..(col_high - 1),
                 read_fails \in BOOLEAN :
                LET window == Window(SubPx(ds), col_offset, row_offset,
                                     window_width, window_height)
                    rd == <<WindowRead(call.raster_id, window)>>
                IN  IF read_fails
                    THEN Finish(call, minmax_stats_except(
                           Result(Raise("RasterioIOError"), Some(window), 0,
                                  rd, FALSE)))
                    ELSE /\ win' = Some(window)
                         /\ reads' = rd
                         /\ n_sampled' = n_sampled + 1
                         /\ UNCHANGED <<phase, call, outcome, thrown, step, logged>>
                         /\ UNCHANGED <<valvars, rngvars, scriptvars>>

\* minmax_stats after the last sample: the percentiles are returned
MinmaxReturn ==
  /\ phase = "sampling"
  /\ n_sampled = SAMPLES
  /\ Finish(call, Result(Return("RasterMinMaxOut"), win, 0, reads, FALSE))

\* the answer went out; the service waits for the next request
NextRequest ==
  /\ phase = "done"
  /\ phase' = "idle"
  /\ call' = NoCall
  /\ outcome' = Pending
  /\ thrown' = ""
  /\ win' = None
  /\ step' = 0
  /\ reads' = <<>>
  /\ logged' = FALSE
  /\ n_sampled' = 0
  /\ UNCHANGED <<valvars, rngvars, scriptvars>>

Next ==
  \/ PixelStats
  \/ PixelStatsBBox
  \/ GeometryStats
  \/ GeometryScatter
  \/ MinmaxStats
  \/ SamplePercentiles
  \/ MinmaxReturn
  \/ NextRequest

Spec == Init /\ [][Next]_vars

\* ---------------------------------------------------------------- value stage
\* The value stage of pixel_stats, geometry_stats and geometry_scatter on
\* windows of a few pixels.  A band is a raster's nodata value (the second
\* item _open_raster returns) and the values its pixels take: integers with
\* an outlier; values equal and close to nodata; NaN and Inf without a
\* nodata value; NaN as the nodata value.
Bands ==
  { [nodata |-> None, values |-> {Fin(0), Fin(1), Fin(100)}],
    [nodata |-> Some(Fin(100000)),
     values |-> {Fin(0), Fin(99999), Fin(100000)}],
    [nodata |-> None, values |-> {Fin(0), NaN, Inf}],
    [nodata |-> Some(NaN), values |-> {Fin(0), NaN}] }

\* the band of raster x and what reproject writes for raster y in
\* geometry_scatter
BandX == [nodata |-> Some(Fin(2)), values |-> {Fin(0), Fin(1), Fin(2), NaN}]
DestY == {Fin(0), Fin(1), NaN}

\* _area_per_pixel_m2(ds): None unless the CRS is projected
_area_per_pixel_m2(ds, is_projected) ==
  IF ~is_projected THEN None
  ELSE Some(Abs(ds.transform.a * ds.transform.e))

\* geometry_stats, lines 752-753: abs(a * e - b * d)
pixel_area(ds) ==
  Abs(ds.transform.a * ds.transform.e - ds.transform.b * ds.transform.d)

\* the arrays and the request fields a value stage works on
Sample(endpoint, data, mask, nodata, dest_y, max_points, bins, histogram_bins, histogram_range) ==
  [endpoint |-> endpoint, data |-> data, mask |-> mask, nodata |-> nodata,
   dest_y |-> dest_y, max_points |-> max_points, bins |-> bins,
   histogram_bins |-> histogram_bins, histogram_range |-> histogram_range]

\* what rng.choice(n, size=size, replace=False) may return (1-based): any
\* size different indices among n; which ones the generator seeded with 0
\* yields is left open here
Choices(n, size) ==
  {idx \in [1..size -> 1..n] :
     \A a \in 1..size, b \in 1..size : a # b => idx[a] # idx[b]}

\* POST /stats/pixel from line 462 on
PixelStatsValues ==
  /\ sample = None
  /\ \E band \in Bands, n \in 1..MaxPixels :
       \E arr \in [1..n -> band.values],
          histogram_bins \in {16, MaxBins},
          histogram_range \in {None, Some(<<0, 1>>), Some(<<1, 0>>)},
          is_projected \in BOOLEAN :
         /\ sample' = Some(Sample("pixel_stats", arr, None, band.nodata,
                                  None, 0, 0, histogram_bins,
                                  histogram_range))
         /\ resp' = Some(pixel_stats_values(
                            arr, band.nodata, histogram_bins, histogram_range,
                            _area_per_pixel_m2(REGISTRY.small, is_projected)))
  /\ UNCHANGED <<reqvars, rngvars, scriptvars>>

\* POST /stats/geometry from line 684 on
GeometryStatsValues ==
  /\ sample = None
  /\ \E band \in Bands, n \in 1..MaxPixels :
       \E data \in [1..n -> band.values], mask \in [1..n -> BOOLEAN] :
         LET res == geometry_stats_values(data, mask, band.nodata,
                                          pixel_area(REGISTRY.small))
         IN  /\ sample' = Some(Sample("geometry_stats", data, mask,
                                      band.nodata, None, 0, 0, 16, None))
             /\ resp' = Some(IF res.outcome.kind = "raise"
                             THEN geometry_stats_except(res) ELSE res)
  /\ UNCHANGED <<reqvars, rngvars, scriptvars>>

\* POST /stats/scatter from line 859 on
GeometryScatterValues ==
  /\ sample = None
  /\ \E n \in 1..MaxPairs :
       \E data_x \in [1..n -> BandX.values], mask \in [1..n -> BOOLEAN],
          dest_y \in [1..n -> DestY], max_points \in (0 - 1)..MaxPairs,
          q_bins \in {0, 2} :
         LET n_pairs == count_nonzero(finite_mask(
                          geometry_scatter_arr_x(data_x, mask, BandX.nodata),
                          geometry_scatter_arr_y(dest_y, mask)))
         IN  \E idx \in IF n_pairs > max_points
                         THEN Choices(n_pairs, max_points) ELSE {<<>>} :
               LET res == geometry_scatter_values(data_x, mask, BandX.nodata,
                                                  dest_y, max_points, q_bins,
                                                  idx)
               IN  /\ sample' = Some(Sample("geometry_scatter", data_x, mask,
                                            BandX.nodata, dest_y, max_points,
                                            q_bins, 0, None))
                   /\ resp' = Some(IF res.outcome.kind = "raise"
                                   THEN geometry_scatter_except(res)
                                   ELSE res)
  /\ UNCHANGED <<reqvars, rngvars, scriptvars>>

\* the answer went out; the next arrays come
NextSample ==
  /\ sample # None
  /\ sample' = None
  /\ resp' = None
  /\ UNCHANGED <<reqvars, rngvars, scriptvars>>

NextValues ==
  \/ PixelStatsValues
  \/ GeometryStatsValues
  \/ GeometryScatterValues
  \/ NextSample

SpecValues == Init /\ [][NextValues]_vars

\* ---------------------------------------------------------------- generators
\* The downsampling of geometry_scatter (lines 922-930) in two threads, next
\* to the queries that draw from the module-wide generator.

\* a faulty generator: it starts in the state of the module-wide one
default_rng_global(seed) == np_random

\* np.random.default_rng(seed): a new generator, made from the seed alone
default_rng(seed) == Generator(seed, 0)

\* the next value of a generator's stream: fixed by its seed and the number
\* of values drawn before
next_value(g) == g.seed + g.pos

\* rng.choice(n, size=size, replace=False) for 0 <= size <= n: size different
\* indices (1-based) fixed by the generator's state
rng_choice(g, n, size) == [k \in 1..size |-> ((next_value(g) + k - 1) % n) + 1]

\* the generator after drawing size values
drawn(g, size) == Generator(g.seed, g.pos + size)

\* x_vals and y_vals (lines 885-886) of the window all these requests ask
\* about: MaxPairs + 1 pairs
scatter_x_vals == [i \in 1..(MaxPairs + 1) |-> Fin(i)]
scatter_y_vals == [i \in 1..(MaxPairs + 1) |-> Fin(0 - i)]

\* what a request is answered with: its outcome and the lists x and y; draws
\* records how many values had left the module-wide generator by then
Answer(cap, res, x, y) ==
  [max_points |-> cap, outcome |-> res, x |-> x, y |-> y,
   draws |-> np_random.pos]

\* geometry_scatter up to line 922 in thread t: the paired sample is there
ScatterPaired(t) ==
  /\ pc[t] = "idle"
  /\ Len(answers) + Cardinality({u \in Threads : pc[u] # "idle"}) < MaxAnswers
  /\ \E cap \in (0 - 1)..(MaxPairs + 1) :
       q_max_points' = [q_max_points EXCEPT ![t] = Some(cap)]
  /\ pc' = [pc EXCEPT ![t] = "paired"]
  /\ UNCHANGED <<reqvars, valvars, scriptvars, np_random, rng, plot, answers>>

\* line 924: rng = np.random.default_rng(0)
ScatterSeed(t) ==
  /\ pc[t] = "paired"
  /\ Len(scatter_x_vals) > q_max_points[t][1]
  /\ rng' = [rng EXCEPT ![t] = Some(default_rng(0))]
  /\ pc' = [pc EXCEPT ![t] = "seeded"]
  /\ UNCHANGED <<reqvars, valvars, scriptvars, np_random, q_max_points, plot, answers>>

\* lines 925-927: idx = rng.choice(...), x_plot = x_vals[idx],
\* y_plot = y_vals[idx]; a negative size raises ValueError
ScatterChoice(t) ==
  /\ pc[t] = "seeded"
  /\ IF q_max_points[t][1] < 0
     THEN /\ plot' = [plot EXCEPT ![t] = Some(Raise("ValueError"))]
          /\ UNCHANGED rng
     ELSE LET idx == rng_choice(rng[t][1], Len(scatter_x_vals),
                                q_max_points[t][1])
          IN  /\ plot' = [plot EXCEPT ![t] =
                            Some(downsample(scatter_x_vals, scatter_y_vals,
                                            idx))]
              /\ rng' = [rng EXCEPT ![t] =
                           Some(drawn(rng[t][1], q_max_points[t][1]))]
  /\ pc' = [pc EXCEPT ![t] = "plotted"]
  /\ UNCHANGED <<reqvars, valvars, scriptvars, np_random, q_max_points, answers>>

\* lines 929-930: x_plot = x_vals, y_plot = y_vals
ScatterKeep(t) ==
  /\ pc[t] = "paired"
  /\ ~(Len(scatter_x_vals) > q_max_points[t][1])
  /\ plot' = [plot EXCEPT ![t] =
                Some([x_plot |-> scatter_x_vals, y_plot |-> scatter_y_vals])]
  /\ pc' = [pc EXCEPT ![t] = "plotted"]
  /\ UNCHANGED <<reqvars, valvars, scriptvars, np_random, q_max_points, rng, answers>>

\* lines 932-996: the answer goes out with x = x_plot.tolist() and
\* y = y_plot.tolist(), or the exception becomes the 500
ScatterRespond(t) ==
  /\ pc[t] = "plotted"
  /\ answers' = Append(answers,
       IF "kind" \in DOMAIN plot[t][1]
       THEN Answer(q_max_points[t][1],
                   HTTPException(500, "Scatter computation failed."),
                   None, None)
       ELSE Answer(q_max_points[t][1], Return("ScatterOut"),
                   Some(plot[t][1].x_plot), Some(plot[t][1].y_plot)))
  /\ pc' = [pc EXCEPT ![t] = "idle"]
  /\ q_max_points' = [q_max_points EXCEPT ![t] = None]
  /\ rng' = [rng EXCEPT ![t] = None]
  /\ plot' = [plot EXCEPT ![t] = None]
  /\ UNCHANGED <<reqvars, valvars, scriptvars, np_random>>

\* _sample_percentiles, lines 555-556, in a thread serving /stats/minmax:
\* two values are drawn from the module-wide generator
RandomWindow ==
  /\ np_random.pos < 2 * MaxDraws
  /\ np_random' = drawn(np_random, 2)
  /\ UNCHANGED <<reqvars, valvars, scriptvars, pc, q_max_points, rng, plot, answers>>

NextRng ==
  \/ \E t \in Threads : ScatterPaired(t)
  \/ \E t \in Threads : ScatterSeed(t)
  \/ \E t \in Threads : ScatterChoice(t)
  \/ \E t \in Threads : ScatterKeep(t)
  \/ \E t \in Threads : ScatterRespond(t)
  \/ RandomWindow

SpecRng == Init /\ [][NextRng]_vars

\* ---------------------------------------------------------------- sampler
\* _sample_percentiles(src, samples, frac) on its own, for rasters of a few
\* pixels a side and fractions that binary floating point holds exactly.
Fracs == {Rat(0, 1), Rat(1, 4), Rat(1, 2), Rat(1, 1), Rat(5, 4)}

\* lines 550-552: int(n * frac) for frac >= 0
window_length(n, frac) == (n * frac.num) \div frac.den

\* np.random.randint(0, high): the values it may return; none when it
\* raises ValueError (high <= 0)
randint(high) == 0..(high - 1)

\* _sample_percentiles(src, samples, frac), lines 548-564, for samples >= 1.
\* offsets[i] is what the two calls of np.random.randint returned in round
\* i.  A window of no pixels reads as an empty array and the percentiles of
\* no values are NaN.
_sample_percentiles(src, samples, frac, offsets) ==
  LET window_height == window_length(src.height, frac)
      window_width == window_length(src.width, frac)
  IN  IF \/ randint(src.height - window_height) = {}
         \/ randint(src.width - window_width) = {}
      THEN [outcome |-> Raise("ValueError"), windows |-> <<>>]
      ELSE [outcome |-> Return("percentiles"),
            windows |-> [i \in 1..samples |->
                           Window(1, offsets[i].col_offset,
                                  offsets[i].row_offset,
                                  window_width, window_height)]]

\* a call of _sample_percentiles
SamplePercentilesCall ==
  /\ sample = None
  /\ \E height \in 1..MaxSide, width \in 1..MaxSide,
        samples \in 1..MaxSamples, frac \in Fracs :
       LET src == [height |-> height, width |-> width]
           rows == randint(height - window_length(height, frac))
           cols == randint(width - window_length(width, frac))
       IN  \E offsets \in IF rows = {} \/ cols = {} THEN {<<>>}
                           ELSE [1..samples ->
                                   [row_offset : rows, col_offset : cols]] :
             /\ sample' = Some([endpoint |-> "_sample_percentiles",
                                src |-> src, samples |-> samples,
                                frac |-> frac])
             /\ resp' = Some(_sample_percentiles(src, samples, frac,
                                                 offsets))
  /\ UNCHANGED <<reqvars, rngvars, scriptvars>>

NextSampler ==
  \/ SamplePercentilesCall
  \/ NextSample

SpecSampler == Init /\ [][NextSampler]_vars

\* ---------------------------------------------------------------- area
\* The area metrics of pixel_stats and geometry_stats for rasters whose
\* transform is north-up, rotated by a quarter turn, or rotated and scaled
\* (b and d not 0), on windows of one or two pixels.
AreaTransforms ==
  { [a |-> 4, b |-> 0, c |-> 0, d |-> 0, e |-> -4, f |-> 8],
    [a |-> 0, b |-> 4, c |-> 0, d |-> 4, e |-> 0, f |-> 8],
    [a |-> 4, b |-> 2, c |-> 0, d |-> 2, e |-> -4, f |-> 8] }

\* the arrays and the dataset an area computation works on
AreaSample(endpoint, data, mask, nodata, ds, is_projected) ==
  [endpoint |-> endpoint, data |-> data, mask |-> mask, nodata |-> nodata,
   ds |-> ds, is_projected |-> is_projected]

\* POST /stats/pixel from line 462 on, on a raster with any transform
PixelStatsArea ==
  /\ sample = None
  /\ \E band \in Bands, n \in 1..MaxPairs, transform \in AreaTransforms,
        is_projected \in BOOLEAN :
       \E arr \in [1..n -> band.values] :
         LET ds == [transform |-> transform]
         IN  /\ sample' = Some(AreaSample("pixel_stats", arr, None,
                                          band.nodata, ds, is_projected))
             /\ resp' = Some(pixel_stats_values(
                                arr, band.nodata, 0, None,
                                _area_per_pixel_m2(ds, is_projected)))
  /\ UNCHANGED <<reqvars, rngvars, scriptvars>>

\* POST /stats/geometry from line 684 on, on a raster with any transform
GeometryStatsArea ==
  /\ sample = None
  /\ \E band \in Bands, n \in 1..MaxPairs, transform \in AreaTransforms,
        is_projected \in BOOLEAN :
       \E data \in [1..n -> band.values], mask \in [1..n -> BOOLEAN] :
         LET ds == [transform |-> transform]
             res == geometry_stats_values(data, mask, band.nodata,
                                          pixel_area(ds))
         IN  /\ sample' = Some(AreaSample("geometry_stats", data, mask,
                                          band.nodata, ds, is_projected))
             /\ resp' = Some(IF res.outcome.kind = "raise"
                             THEN geometry_stats_except(res) ELSE res)
  /\ UNCHANGED <<reqvars, rngvars, scriptvars>>

NextArea ==
  \/ PixelStatsArea
  \/ GeometryStatsArea
  \/ NextSample

SpecArea == Init /\ [][NextArea]_vars

\* ---------------------------------------------------------------- geoserver
\* geoserver_register.py.  A request to GeoServer is answered with a status
\* code or ends in a requests.RequestException (status 0 here).
RequestException == 0

\* what a request of the trace looks like
Request(method, path, status_code) ==
  [op |-> method, path |-> path, status_code |-> status_code]

\* time.sleep(secs)
Sleep(secs) == [op |-> "sleep", path |-> "", status_code |-> secs]

\* a faulty readiness test: any answer counts
ping_ready_any(status_code) == status_code # RequestException

\* ping_until_up, line 447: r.status_code == 200
ping_ready(status_code) == status_code = 200

\* ping_until_up is called: start = time.time() (line 443); locals.elapsed
\* is time.time() - start in seconds
PingStart ==
  /\ frame = "idle"
  /\ \E timeout_sec \in 0..MaxTimeout :
       locals' = Some([timeout_sec |-> timeout_sec, elapsed |-> 0])
  /\ frame' = "ping_while"
  /\ UNCHANGED <<reqvars, valvars, rngvars, trace, result>>

\* line 444: while time.time() - start < timeout_sec; line 453 after the loop
PingWhile ==
  /\ frame = "ping_while"
  /\ IF locals[1].elapsed < locals[1].timeout_sec
     THEN frame' = "ping_get" /\ UNCHANGED result
     ELSE frame' = "done" /\ result' = Raise("TimeoutError")
  /\ UNCHANGED <<reqvars, valvars, rngvars, locals, trace>>

\* lines 445-451: the GET, which takes up to a second here (the client's
\* timeout bounds it), is answered 200 (return), answered something else, or
\* raises requests.RequestException, which is logged
PingGet ==
  /\ frame = "ping_get"
  /\ \E status_code \in {200, 404, 500, RequestException}, took \in 0..1 :
       /\ trace' = Append(trace, Request("GET", "/rest/about/version.json",
                                         status_code))
       /\ locals' = Some([locals[1] EXCEPT !.elapsed = @ + took])
       /\ IF ping_ready(status_code)
          THEN frame' = "done" /\ result' = Return("None")
          ELSE frame' = "ping_sleep" /\ UNCHANGED result
  /\ UNCHANGED <<reqvars, valvars, rngvars>>

\* line 452: time.sleep(2)
PingSleep ==
  /\ frame = "ping_sleep"
  /\ trace' = Append(trace, Sleep(2))
  /\ locals' = Some([locals[1] EXCEPT !.elapsed = @ + 2])
  /\ frame' = "ping_while"
  /\ UNCHANGED <<reqvars, valvars, rngvars, result>>

NextPing ==
  \/ PingStart
  \/ PingWhile
  \/ PingGet
  \/ PingSleep

SpecPing == Init /\ [][NextPing]_vars

\* the thread that runs ping_until_up keeps running: a GET ends within the
\* client's timeout and a sleep ends
SpecPingFair == SpecPing /\ WF_vars(NextPing)

\* what GeoServer may answer, or the request fails with an exception
Answers == {200, 201, 202, 204, 404, 500, RequestException}

\* the function ends with exception exc
Raised(exc) == frame' = "done" /\ result' = Raise(exc)

\* a faulty test of the delete's answer: every answer is taken as success
delete_ok_any(status_code) == TRUE

\* purge_and_create_workspace, line 260: status_code in (200, 202, 204, 404)
delete_ok(status_code) == status_code \in {200, 202, 204, 404}

\* lines 271 and 281: status_code in (200, 201)
created_ok(status_code) == status_code \in {200, 201}

\* the "workspaces" item of the listing: a list of entries, given by their
\* names ("" for an entry without a name), or None for the empty string that
\* GeoServer sends when it has no workspace
Listings ==
  {None} \cup {Some(w) : w \in UNION {[1..n -> {"", "ws_a", "ws_b"}] :
                                        n \in 0..MaxWorkspaces}}

\* purge_and_create_workspace, lines 242-251: the listing
PurgeList ==
  /\ frame = "idle"
  /\ \E status_code \in {200, 404, RequestException}, listing \in Listings :
       /\ trace' = Append(trace, Request("GET", <<"workspaces.json">>,
                                         status_code))
       /\ IF status_code = RequestException
          THEN Raised("RequestException") /\ UNCHANGED locals
          ELSE IF status_code # 200
          THEN Raised("RuntimeError") /\ UNCHANGED locals
          ELSE IF listing = None
          THEN \* "".get("workspace", [])
               /\ Raised("AttributeError")
               /\ locals' = Some([workspaces |-> <<>>, next |-> 1])
          ELSE /\ locals' = Some([workspaces |-> listing[1], next |-> 1])
               /\ frame' = "purge_for"
               /\ UNCHANGED result
  /\ UNCHANGED <<reqvars, valvars, rngvars>>

\* lines 253-266: one round of the loop over the workspaces
PurgeDelete ==
  /\ frame = "purge_for"
  /\ locals[1].next <= Len(locals[1].workspaces)
  /\ LET name == locals[1].workspaces[locals[1].next]
     IN  IF name = ""
         THEN /\ locals' = Some([locals[1] EXCEPT !.next = @ + 1])
              /\ UNCHANGED <<frame, trace, result>>
         ELSE \E status_code \in Answers :
                /\ trace' = Append(trace, Request("DELETE",
                                                 <<"workspaces", name>>,
                                                 status_code))
                /\ IF status_code = RequestException
                   THEN Raised("RequestException") /\ UNCHANGED locals
                   ELSE IF delete_ok(status_code)
                   THEN /\ locals' = Some([locals[1] EXCEPT !.next = @ + 1])
                        /\ UNCHANGED <<frame, result>>
                   ELSE Raised("RuntimeError") /\ UNCHANGED locals
  /\ UNCHANGED <<reqvars, valvars, rngvars>>

\* lines 269-275: the new workspace is created
PurgeCreate ==
  /\ frame = "purge_for"
  /\ locals[1].next > Len(locals[1].workspaces)
  /\ \E status_code \in Answers :
       /\ trace' = Append(trace, Request("POST", <<"workspaces">>,
                                         status_code))
       /\ IF status_code = RequestException
          THEN Raised("RequestException")
          ELSE IF created_ok(status_code)
          THEN frame' = "purge_default" /\ UNCHANGED result
          ELSE Raised("RuntimeError")
  /\ UNCHANGED <<reqvars, valvars, rngvars, locals>>

\* lines 277-285: the new workspace becomes the default one; lines 287-292
PurgeDefault ==
  /\ frame = "purge_default"
  /\ \E status_code \in Answers :
       /\ trace' = Append(trace, Request("PUT", <<"workspaces", "default.json">>,
                                         status_code))
       /\ IF status_code = RequestException
          THEN Raised("RequestException")
          ELSE IF created_ok(status_code)
          THEN frame' = "done" /\ result' = Return("None")
          ELSE Raised("RuntimeError")
  /\ UNCHANGED <<reqvars, valvars, rngvars, locals>>

NextPurge ==
  \/ PurgeList
  \/ PurgeDelete
  \/ PurgeCreate
  \/ PurgeDefault

SpecPurge == Init /\ [][NextPurge]_vars

\* the style formats a caller may pass
StyleFormats == {"sld", "SLD", "geocss", "GeoCSS", "mbstyle", "ysld", "css"}

\* a faulty normalisation: the format is taken as it was written
str_lower_identity(style_format) == style_format

\* create_style_if_not_exists, line 481: style_format.lower()
str_lower(style_format) ==
  CASE style_format = "SLD" -> "sld"
    [] style_format = "GeoCSS" -> "geocss"
    [] OTHER -> style_format

\* lines 482-491: the keys of style_format_map
style_format_map == {"sld", "geocss", "mbstyle", "ysld"}

\* create_style_if_not_exists, lines 481-496: the format is looked up
StyleFormat ==
  /\ frame = "idle"
  /\ \E style_format \in StyleFormats, file_exists \in BOOLEAN :
       /\ locals' = Some([style_format |-> style_format,
                          file_exists |-> file_exists])
       /\ IF str_lower(style_format) \notin style_format_map
          THEN Raised("ValueError")
          ELSE frame' = "style_get" /\ UNCHANGED result
  /\ UNCHANGED <<reqvars, valvars, rngvars, trace>>

\* lines 499-502: is the style there?
StyleGet ==
  /\ frame = "style_get"
  /\ \E status_code \in {200, 404, 500, RequestException} :
       /\ trace' = Append(trace, Request("GET", <<"styles", "style.json">>,
                                         status_code))
       /\ IF status_code = RequestException
          THEN Raised("RequestException")
          ELSE IF status_code # 200
          THEN frame' = "style_post" /\ UNCHANGED result
          ELSE frame' = "style_upload" /\ UNCHANGED result
  /\ UNCHANGED <<reqvars, valvars, rngvars, locals>>

\* lines 503-518: the style entry is created
StylePost ==
  /\ frame = "style_post"
  /\ \E status_code \in {200, 201, 404, 500, RequestException} :
       /\ trace' = Append(trace, Request("POST", <<"styles">>, status_code))
       /\ IF status_code = RequestException
          THEN Raised("RequestException")
          ELSE IF created_ok(status_code)
          THEN frame' = "style_upload" /\ UNCHANGED result
          ELSE Raised("RuntimeError")
  /\ UNCHANGED <<reqvars, valvars, rngvars, locals>>

\* lines 521-539: the style file is read and uploaded
StyleUpload ==
  /\ frame = "style_upload"
  /\ IF ~locals[1].file_exists
     THEN Raised("FileNotFoundError") /\ UNCHANGED trace
     ELSE \E status_code \in {200, 201, 404, 500, RequestException} :
            /\ trace' = Append(trace, Request("PUT", <<"styles", "style.sld">>,
                                              status_code))
            /\ IF status_code = RequestException
               THEN Raised("RequestException")
               ELSE IF created_ok(status_code)
               THEN frame' = "done" /\ result' = Return("None")
               ELSE Raised("RuntimeError")
  /\ UNCHANGED <<reqvars, valvars, rngvars, locals>>

NextStyle ==
  \/ StyleFormat
  \/ StyleGet
  \/ StylePost
  \/ StyleUpload

SpecStyle == Init /\ [][NextStyle]_vars

\* a step of main in the trace: a function that was called and how it ended
\* ("" when it returned, else the exception), or a task handed to the task
\* graph for a layer
Called(func, exc) == [op |-> func, path |-> <<>>, status_code |-> exc]
AddTask(func, raster_id) ==
  [op |-> "add_task", path |-> <<func, raster_id>>, status_code |-> ""]

\* main calls func (lines 865-882), which returns or raises one of excs; an
\* exception leaves main
MainCall(at, func, excs, then) ==
  /\ frame = at
  /\ \E exc \in {""} \cup excs :
       /\ trace' = Append(trace, Called(func, exc))
       /\ IF exc = "" THEN frame' = then /\ UNCHANGED result
          ELSE Raised(exc)
  /\ UNCHANGED <<reqvars, valvars, rngvars, locals>>

\* main, lines 814-862: the configuration is read (its layers are numbered
\* here) and the task graph and the client are made
MainConfig ==
  /\ frame = "idle"
  /\ \E layers \in 0..MaxLayers, geoserver_init_process_files \in BOOLEAN :
       locals' = Some([layers |-> layers,
                       geoserver_init_process_files |->
                         geoserver_init_process_files,
                       next |-> 1])
  /\ frame' = "main_ping"
  /\ UNCHANGED <<reqvars, valvars, rngvars, trace, result>>

\* line 865
MainPing ==
  MainCall("main_ping", "ping_until_up", {"TimeoutError"}, "main_purge")

\* line 870
MainPurge ==
  MainCall("main_purge", "purge_and_create_workspace",
           {"RuntimeError", "RequestException", "AttributeError"},
           "main_style")

\* lines 876-882
MainStyle ==
  MainCall("main_style", "create_style_if_not_exists",
           {"RuntimeError", "RequestException", "FileNotFoundError"},
           "main_for")

\* lines 892-897, one layer of the loop: line 897 computes
\* "file_path = local_working_dir / Path(file_path).name", which reads the
\* local variable file_path before anything was assigned to it, so the
\* first round raises UnboundLocalError and lines 910-942 (the add_task
\* calls) are never reached
MainLayer ==
  /\ frame = "main_for"
  /\ locals[1].next <= locals[1].layers
  /\ Raised("UnboundLocalError")
  /\ UNCHANGED <<reqvars, valvars, rngvars, locals, trace>>

\* lines 952-954, after the loop: task_graph.join() and task_graph.close()
MainJoin ==
  /\ frame = "main_for"
  /\ locals[1].next > locals[1].layers
  /\ trace' = trace \o <<Called("join", ""), Called("close", "")>>
  /\ frame' = "main_rotate"
  /\ UNCHANGED <<reqvars, valvars, rngvars, locals, result>>

\* lines 957-993: the two passwords are changed by PUT; an answer other
\* than 200 and an exception are logged and nothing else
MainRotate ==
  /\ frame = "main_rotate"
  /\ \E master \in {200, 500, RequestException},
        admin \in {200, 500, RequestException} :
       trace' = trace \o <<Request("PUT", <<"security", "masterpw.json">>,
                                   master),
                           Request("PUT", <<"security", "self", "password">>,
                                   admin)>>
  /\ frame' = "done"
  /\ result' = Return("None")
  /\ UNCHANGED <<reqvars, valvars, rngvars, locals>>

NextMain ==
  \/ MainConfig
  \/ MainPing
  \/ MainPurge
  \/ MainStyle
  \/ MainLayer
  \/ MainJoin
  \/ MainRotate

SpecMain == Init /\ [][NextMain]_vars

\* ------------------------------------------------------------ processing
\* the projections of the model: the source raster has none, the target one
\* or another one
Projections == {"EPSG:3857", "EPSG:4326"}

\* the smaller side of the cropped raster, around the sizes where an overview
\* level is added
MinSides == {1, 256, 512, 513, 1024, 1025}

\* lines 763-769: k = 1; while min_side / (2**k) > 256: factors.append(2**k)
RECURSIVE overview_factors_from(_, _)
overview_factors_from(min_side, pow) ==
  IF min_side > 256 * pow
  THEN <<pow>> \o overview_factors_from(min_side, 2 * pow)
  ELSE <<>>
overview_factors(min_side) == overview_factors_from(min_side, 2)

\* a step of the function on the files: which file it read or wrote and how
\* it ended ("" or the exception)
FileStep(func, file, exc) == [op |-> func, path |-> <<file>>, status_code |-> exc]

\* reproject_and_build_overviews_if_needed, lines 688-726: the source is
\* opened; without a CRS the function raises ValueError, before any file is
\* made. locals.files are the files that exist next to dst_path
ProcessOpen ==
  /\ frame = "idle"
  /\ \E crs \in {None} \cup {Some(c) : c \in Projections},
        target_projection \in Projections,
        count \in 1..MaxBandCount,
        valid \in BOOLEAN,
        min_side \in MinSides :
       /\ locals' = Some([files |-> {},
                          same_crs |-> crs = Some(target_projection),
                          count |-> count,
                          valid |-> valid,
                          min_side |-> min_side,
                          bidx |-> 1])
       /\ IF crs = None
          THEN Raised("ValueError")
          ELSE frame' = "process_mkstemp" /\ UNCHANGED result
  /\ UNCHANGED <<reqvars, valvars, rngvars, trace>>

\* lines 729-734: tempfile.mkstemp makes the temporary file in the directory
\* of dst_path (or fails, and then there is no file)
ProcessMkstemp ==
  /\ frame = "process_mkstemp"
  /\ \E exc \in {"", "OSError"} :
       /\ trace' = Append(trace, FileStep("mkstemp", "tmp_dst_path", exc))
       /\ IF exc = ""
          THEN /\ locals' = Some([locals[1] EXCEPT !.files = @ \cup {"tmp_dst_path"}])
               /\ frame' = "process_write"
               /\ UNCHANGED result
          ELSE Raised(exc) /\ UNCHANGED locals
  /\ UNCHANGED <<reqvars, valvars, rngvars>>

\* lines 736-756: band bidx is written (same CRS) or reprojected into the
\* temporary file; an exception of rasterio leaves the function through the
\* with blocks, which close the datasets and remove nothing
ProcessWrite ==
  /\ frame = "process_write"
  /\ \E exc \in {"", "RasterioIOError"} :
       /\ trace' = Append(trace,
                          FileStep(IF locals[1].same_crs THEN "write"
                                   ELSE "reproject", "tmp_dst_path", exc))
       /\ IF exc = ""
          THEN /\ locals' = Some([locals[1] EXCEPT !.bidx = @ + 1])
               /\ frame' = IF locals[1].bidx = locals[1].count
                           THEN "process_crop" ELSE "process_write"
               /\ UNCHANGED result
          ELSE Raised(exc) /\ UNCHANGED locals
  /\ UNCHANGED <<reqvars, valvars, rngvars>>

\* line 758 and crop_to_valid, lines 621-659: a raster without a valid pixel
\* raises RuntimeError (line 624); else dst_path is written, which may fail
ProcessCrop ==
  /\ frame = "process_crop"
  /\ \E exc \in IF locals[1].valid THEN {"", "RasterioIOError"}
                 ELSE {"RuntimeError"} :
       /\ trace' = Append(trace, FileStep("crop_to_valid", "dst_path", exc))
       /\ IF exc = ""
          THEN /\ locals' = Some([locals[1] EXCEPT !.files = @ \cup {"dst_path"}])
               /\ frame' = "process_remove"
               /\ UNCHANGED result
          ELSE Raised(exc) /\ UNCHANGED locals
  /\ UNCHANGED <<reqvars, valvars, rngvars>>

\* line 759: os.remove(tmp_dst_path)
ProcessRemove ==
  /\ frame = "process_remove"
  /\ trace' = Append(trace, FileStep("remove", "tmp_dst_path", ""))
  /\ locals' = Some([locals[1] EXCEPT !.files = @ \ {"tmp_dst_path"}])
  /\ frame' = "process_overviews"
  /\ UNCHANGED <<reqvars, valvars, rngvars, result>>

\* lines 762-773: the overview factors of the final raster are computed and
\* built in place, which may fail; the function returns str(dst_path)
ProcessOverviews ==
  /\ frame = "process_overviews"
  /\ \E exc \in {"", "RasterioIOError"} :
       /\ trace' = Append(trace,
                          [op |-> "build_overviews",
                           path |-> overview_factors(locals[1].min_side),
                           status_code |-> exc])
       /\ frame' = "done"
       /\ result' = IF exc = "" THEN Return("dst_path") ELSE Raise(exc)
  /\ UNCHANGED <<reqvars, valvars, rngvars, locals>>

NextProcess ==
  \/ ProcessOpen
  \/ ProcessMkstemp
  \/ ProcessWrite
  \/ ProcessCrop
  \/ ProcessRemove
  \/ ProcessOverviews

SpecProcess == Init /\ [][NextProcess]_vars

\* -------------------------------------------------------------- manifest
\* the GeoTIFFs that may lie under the root: <<d, s>> is the file with the
\* s-th stem in the d-th directory, directories and stems numbered in the
\* order of their names
RasterPaths == (1..MaxDirs) \X (1..MaxStems)

\* the order of pathlib.Path that sorted() uses: by the parts, left to right
path_lt(p, q) == p[1] < q[1] \/ (p[1] = q[1] /\ p[2] < q[2])

\* line 355: sorted(find_geotiffs(root, exts))
RECURSIVE sorted_paths(_)
sorted_paths(found) ==
  IF found = {} THEN <<>>
  ELSE LET first == CHOOSE p \in found : \A q \in found \ {p} : path_lt(p, q)
       IN  <<first>> \o sorted_paths(found \ {first})

\* build_layer_entry, lines 85-91: the key is the stem of the path
path_stem(path) == path[2]
build_layer_entry(path, default_style) ==
  <<path_stem(path), [file_path |-> path, default_style |-> default_style]>>

\* generate_dynamic_sld, lines 117-124: the style file of a raster is named
\* after the stem alone, '<root>/styles/<stem>_default_style.sld'
sld_path(raster_path) == path_stem(raster_path)

\* main of raster_manifest_builder, lines 345-354: the root is resolved; for
\* a root that is no directory, logger.error is called with file=sys.stderr,
\* a keyword that Logger.error does not take. locals.styles are the style
\* files on disk, each with the raster it was generated from
ManifestScan ==
  /\ frame = "idle"
  /\ \E is_dir \in BOOLEAN, found \in SUBSET RasterPaths :
       /\ locals' = Some([rasters |-> IF is_dir THEN sorted_paths(found)
                                     ELSE <<>>,
                          next |-> 1,
                          layers |-> <<>>,
                          styles |-> <<>>])
       /\ IF is_dir
          THEN frame' = "manifest_for" /\ UNCHANGED result
          ELSE Raised("TypeError")
  /\ UNCHANGED <<reqvars, valvars, rngvars, trace>>

\* lines 355-368, one round of the loop: the style file is written first
\* (line 356, and line 323 in generate_dynamic_sld, which may fail on a
\* raster that cannot be read), then the entry is built, and only then the
\* key is looked up in layers; for a key that is there, logger.warning is
\* called with file=sys.stderr, which raises TypeError
ManifestLayer ==
  /\ frame = "manifest_for"
  /\ locals[1].next <= Len(locals[1].rasters)
  /\ LET raster_path == locals[1].rasters[locals[1].next]
         path_to_style == sld_path(raster_path)
         built == build_layer_entry(raster_path, path_to_style)
         key == built[1]
         entry == built[2]
         written == [f \in DOMAIN locals[1].styles \cup {path_to_style} |->
                       IF f = path_to_style THEN raster_path
                       ELSE locals[1].styles[f]]
     IN  \E exc \in {"", "RasterioIOError"} :
           /\ trace' = Append(trace, [op |-> "generate_dynamic_sld",
                                      path |-> raster_path,
                                      status_code |-> exc])
           /\ IF exc # ""
              THEN Raised(exc) /\ UNCHANGED locals
              ELSE IF key \in DOMAIN locals[1].layers
              THEN /\ locals' = Some([locals[1] EXCEPT !.styles = written])
                   /\ Raised("TypeError")
              ELSE /\ locals' =
                        Some([locals[1] EXCEPT
                                !.styles = written,
                                !.next = @ + 1,
                                !.layers =
                                  [k \in DOMAIN locals[1].layers \cup {key} |->
                                     IF k = key THEN entry
                                     ELSE locals[1].layers[k]]])
                   /\ UNCHANGED <<frame, result>>
  /\ UNCHANGED <<reqvars, valvars, rngvars>>

\* lines 370-394: the document with the layers is written to standard output
ManifestDump ==
  /\ frame = "manifest_for"
  /\ locals[1].next > Len(locals[1].rasters)
  /\ trace' = Append(trace, [op |-> "safe_dump", path |-> <<>>,
                             status_code |-> ""])
  /\ frame' = "done"
  /\ result' = Return("None")
  /\ UNCHANGED <<reqvars, valvars, rngvars, locals>>

NextManifest ==
  \/ ManifestScan
  \/ ManifestLayer
  \/ ManifestDump

SpecManifest == Init /\ [][NextManifest]_vars

\* ---------------------------------------------------------------- claims
Done == phase = "done"
Served(endpoint) == phase = "done" /\ call.endpoint = endpoint
GeometryEndpoints == {"geometry_stats", "geometry_scatter"}

\* the rasters the request names are registered and their files exist
RastersOpen ==
  /\ _open_raster(call.raster_id).raised = None
  /\ call.endpoint = "geometry_scatter"
       => _open_raster(call.raster_id_y).raised = None

\* w has whole-pixel fields, positive lengths and lies inside the raster
WindowInsideRaster(w, ds) ==
  LET d == SubPx(ds)
  IN  /\ w.col_off % d = 0 /\ w.row_off % d = 0
      /\ w.width % d = 0 /\ w.height % d = 0
      /\ w.width > 0 /\ w.height > 0
      /\ 0 <= w.col_off /\ w.col_off + w.width <= d * ds.width
      /\ 0 <= w.row_off /\ w.row_off + w.height <= d * ds.height

\* the geometry shares no point with the raster's extent
GeometryOutside(g, ds) ==
  LET t == ds.transform
  IN  \/ g.maxx < t.c
      \/ g.minx > t.c + ds.width * t.a
      \/ g.maxy < t.f + ds.height * t.e
      \/ g.miny > t.f

\* the request got an answer value of its response model
ReturnedResult ==
  outcome.kind = "return" /\ outcome.value # "None"

C2_OutsideGivesEmptyWindow ==
  ( /\ Done
    /\ call.endpoint \in GeometryEndpoints
    /\ RastersOpen
    /\ GeometryOutside(call.geometry[1], REGISTRY[call.raster_id]) )
  => IsHTTP(outcome, 400, "Empty read window")

\* the boundary error the request must end with, None when it has none:
\* unknown raster id, missing file (x before y in geometry_scatter), point
\* outside the raster (pixel_stats)
BoundaryError(q) ==
  LET ox == _open_raster(q.raster_id)
  IN  IF ox.raised # None THEN ox.raised
      ELSE IF q.endpoint = "geometry_scatter"
              /\ _open_raster(q.raster_id_y).raised # None
      THEN _open_raster(q.raster_id_y).raised
      ELSE IF q.endpoint = "pixel_stats"
      THEN LET ds == ox.ds[1]
               rc == rowcol(ds.transform, q.x, q.y, 1, "round")
           IN  IF 0 <= rc[1] /\ rc[1] < ds.height
                  /\ 0 <= rc[2] /\ rc[2] < ds.width
               THEN None
               ELSE Some(HTTPException(400, "point outside raster extent"))
      ELSE None

\* C3 (as claimed): in every endpoint a boundary-detectable error reaches the
\* caller with its own kind (404 not found, 500 file missing, 400 point
\* outside), neither swallowed nor converted.
C3_BoundaryErrorsKeepTheirKind ==
  (Done /\ BoundaryError(call) # None) => outcome = BoundaryError(call)[1]

\* C4 (as claimed): after an unexpected internal exception (not an
\* HTTPException) the request ends in a failure (an HTTP 500 of the handler,
\* logged, or the exception itself reaching the framework); no handler
\* returns normally, and none returns without a result.
C4_InternalFailureBecomesError ==
  Done =>
    /\ thrown \notin {"", "HTTPException"} =>
         /\ outcome.kind = "raise"
         /\ outcome.value = "HTTPException" => (outcome.status = 500 /\ logged)
    /\ outcome.kind = "return" => outcome.value # "None"

\* the part of window w inside the raster, of zero area when there is none
ClampToRaster(w, ds) ==
  LET d == SubPx(ds)
      col_start == Max(w.col_off, 0)
      row_start == Max(w.row_off, 0)
  IN  [col_off |-> col_start, row_off |-> row_start,
       width |-> Max(0, Min(w.col_off + w.width, d * ds.width) - col_start),
       height |-> Max(0, Min(w.row_off + w.height, d * ds.height) - row_start)]

\* the window of the bounds of g widened by pad on each side: rounded, then
\* cut to the raster
BoundsWindow(g, pad, ds) ==
  LET d == SubPx(ds)
      fb == from_bounds(g.minx - pad, g.miny - pad, g.maxx + pad,
                        g.maxy + pad, ds.transform)
  IN  ClampToRaster(round_lengths(round_offsets(fb[1], d), d), ds)

\* the 1 x 1 window at the pixel of the centroid of g, clamped into the raster
CentroidWindow(g, ds) ==
  LET rc == rowcol(ds.transform, g.minx + g.maxx, g.miny + g.maxy, 2, "floor")
  IN  Window(SubPx(ds), Min(Max(rc[2], 0), ds.width - 1),
             Min(Max(rc[1], 0), ds.height - 1), 1, 1)

HasArea(w) == w.width > 0 /\ w.height > 0

\* C5 (as claimed): window resolution returns the step-1 window when it has
\* area, otherwise the half-pixel padded window when that has area,
\* otherwise the clamped centroid pixel; a later step only after every
\* earlier one gave a zero-area window.
C5_LadderInOrder ==
  (Done /\ call.endpoint \in GeometryEndpoints /\ RastersOpen) =>
    LET ds == REGISTRY[call.raster_id]
        g == call.geometry[1]
        w1 == BoundsWindow(g, 0, ds)
        w2 == BoundsWindow(g, ds.transform.a \div 2, ds)
    IN  IF HasArea(w1) THEN win = Some(w1) /\ step = 1
        ELSE IF HasArea(w2) THEN win = Some(w2) /\ step = 2
        ELSE win = Some(CentroidWindow(g, ds)) /\ step = 3

\* C6: without a bbox, for a center pixel (r, c) inside the raster the window
\* covers rows max(0, r-R)..min(height-1, r+R) and columns
\* max(0, c-R)..min(width-1, c+R) inclusive, R = radius_pixels; radius_pixels
\* = None gives the 1 x 1 window at (r, c).
C6_RadiusWindowInclusive ==
  (Served("pixel_stats") /\ call.bbox = None /\ BoundaryError(call) = None) =>
    LET ds == REGISTRY[call.raster_id]
        rc == rowcol(ds.transform, call.x, call.y, 1, "round")
        R == IF call.radius_pixels = None THEN 0 ELSE call.radius_pixels[1]
        row_lo == Max(0, rc[1] - R)
        row_hi == Min(ds.height - 1, rc[1] + R)
        col_lo == Max(0, rc[2] - R)
        col_hi == Min(ds.width - 1, rc[2] + R)
    IN  /\ win = Some(Window(SubPx(ds), col_lo, row_lo, col_hi - col_lo + 1,
                             row_hi - row_lo + 1))
        /\ call.radius_pixels = None =>
             win = Some(Window(SubPx(ds), rc[2], rc[1], 1, 1))
        /\ reads = <<WindowRead(call.raster_id, win[1])>>

\* C6 witness: the largest radius reaches above row 0, so the window that
\* was read starts at row 0 and is shorter than 2R + 1 rows
C6_Witness ==
  /\ Served("pixel_stats")
  /\ call.bbox = None
  /\ call.radius_pixels = Some(MaxRadius)
  /\ Len(reads) = 1
  /\ win # None
  /\ win[1].row_off = 0
  /\ win[1].height < SubPx(REGISTRY[call.raster_id]) * (2 * MaxRadius + 1)

InsideSinglePixel(g, ds) ==
  LET t == ds.transform
  IN  /\ g.minx < g.maxx /\ g.miny < g.maxy
      /\ \E r \in 0..(ds.height - 1), c \in 0..(ds.width - 1) :
           /\ t.c + c * t.a <= g.minx /\ g.maxx <= t.c + (c + 1) * t.a
           /\ t.f + (r + 1) * t.e <= g.miny /\ g.maxy <= t.f + r * t.e

\* C8 (as claimed): for a polygon inside a single pixel window resolution
\* falls through to step 2 and gives a 1 x 1 or a 2 x 2 window.
C8_TinyPolygonUsesPadding ==
  ( /\ Done
    /\ call.endpoint \in GeometryEndpoints
    /\ RastersOpen
    /\ InsideSinglePixel(call.geometry[1], REGISTRY[call.raster_id]) )
  => /\ step = 2
     /\ win # None
     /\ LET d == SubPx(REGISTRY[call.raster_id])
        IN  \/ win[1].width = d /\ win[1].height = d
            \/ win[1].width = 2 * d /\ win[1].height = 2 * d

\* C9 (as claimed): with a bbox (minx <= maxx, miny <= maxy) and the point
\* inside the raster, a bbox window with no area inside the raster ends the
\* request with the 400 "empty window", without a read.
C9_EmptyBBoxWindowIs400 ==
  ( /\ Served("pixel_stats")
    /\ call.bbox # None
    /\ BoundaryError(call) = None
    /\ call.bbox[1][1] <= call.bbox[1][3]
    /\ call.bbox[1][2] <= call.bbox[1][4]
    /\ LET bb == call.bbox[1]
       IN  ~HasArea(BoundsWindow(Box(bb[1], bb[2], bb[3], bb[4]), 0,
                                 REGISTRY[call.raster_id])) )
  => /\ IsHTTP(outcome, 400, "empty window")
     /\ reads = <<>>

\* C10: pixel_stats on an opened raster ends with the 400 "point outside
\* raster extent" exactly when the query point maps (rowcol, op=round) to a
\* row or column outside [0, height) x [0, width); then no window was
\* computed and nothing was read, with or without a bbox.
C10_PointOutsideIffOutOfRange ==
  (Served("pixel_stats") /\ RastersOpen) =>
    LET ds == REGISTRY[call.raster_id]
        rc == rowcol(ds.transform, call.x, call.y, 1, "round")
        outside == ~(0 <= rc[1] /\ rc[1] < ds.height
                     /\ 0 <= rc[2] /\ rc[2] < ds.width)
    IN  /\ IsHTTP(outcome, 400, "point outside raster extent") <=> outside
        /\ outside => (win = None /\ reads = <<>>)

\* C10 witness: a request with a bbox that lies inside the raster, refused
\* because its point is outside
C10_Witness ==
  /\ Served("pixel_stats")
  /\ call.bbox # None
  /\ call.raster_id = "small"
  /\ call.bbox[1][1] < call.bbox[1][3] /\ call.bbox[1][2] < call.bbox[1][4]
  /\ HasArea(BoundsWindow(Box(call.bbox[1][1], call.bbox[1][2],
                              call.bbox[1][3], call.bbox[1][4]), 0,
                          REGISTRY.small))
  /\ IsHTTP(outcome, 400, "point outside raster extent")

\* ---------------------------------------------------------------- value claims
\* the value stage of endpoint ran and gave a response of its model
Reduced(endpoint) ==
  /\ sample # None
  /\ sample[1].endpoint = endpoint
  /\ resp[1].outcome.kind = "return"
  /\ resp[1].outcome.value # "None"

\* pixel i of the window is inside the query geometry (every pixel is when
\* the query has no geometry), is not close to nodata, and is finite
InsideGeometry(smp, i) == smp.endpoint = "pixel_stats" \/ smp.mask[i]
NotNodata(smp, i) ==
  smp.nodata = None \/ ~isclose(smp.data[i], smp.nodata[1])
ValidPixel(smp, i) ==
  InsideGeometry(smp, i) /\ NotNodata(smp, i) /\ isfinite(smp.data[i])

\* the values of the valid pixels of the window, in the window's order
ValidValues(smp) ==
  Numbers(BoolIndex(smp.data,
                    [i \in 1..Len(smp.data) |-> ValidPixel(smp, i)]))

\* the valid pixels whose value of raster y is finite too
PairedPixel(smp, i) == ValidPixel(smp, i) /\ isfinite(smp.dest_y[i])
PairedX(smp) ==
  Numbers(BoolIndex(smp.data,
                    [i \in 1..Len(smp.data) |-> PairedPixel(smp, i)]))
PairedY(smp) ==
  Numbers(BoolIndex(smp.dest_y,
                    [i \in 1..Len(smp.data) |-> PairedPixel(smp, i)]))

\* the statistics are those of the values vs: as many, and for at least one
\* value the same minimum, maximum, mean and median
StatisticsOf(stats, vs) ==
  /\ stats.count = Len(vs)
  /\ Len(vs) > 0 =>
       /\ stats.min = Some(np_min(vs))
       /\ stats.max = Some(np_max(vs))
       /\ stats.mean = Some(np_mean(vs))
       /\ stats.median = Some(np_median(vs))

\* C11 (as claimed): in pixel_stats, geometry_stats and geometry_scatter the
\* values that make the result are exactly those of the pixels of the read
\* window that are inside the geometry, not close to nodata and finite.
C11_ValidPixelsContribute ==
  /\ Reduced("pixel_stats") =>
       StatisticsOf(resp[1].fields.stats, ValidValues(sample[1]))
  /\ Reduced("geometry_stats") =>
       StatisticsOf(resp[1].fields.stats, ValidValues(sample[1]))
  /\ Reduced("geometry_scatter") =>
       /\ resp[1].x_vals = ValidValues(sample[1])
       /\ resp[1].fields.n_pairs = Len(ValidValues(sample[1]))

\* C11 (amended): in pixel_stats and geometry_stats the values that make the
\* result are exactly those of the pixels that are inside the geometry, not
\* close to nodata and finite; in geometry_scatter such a pixel contributes
\* exactly when its value of raster y is finite as well.
C11_ValidPixelsContributeAmended ==
  /\ Reduced("pixel_stats") =>
       StatisticsOf(resp[1].fields.stats, ValidValues(sample[1]))
  /\ Reduced("geometry_stats") =>
       StatisticsOf(resp[1].fields.stats, ValidValues(sample[1]))
  /\ Reduced("geometry_scatter") =>
       /\ resp[1].x_vals = PairedX(sample[1])
       /\ resp[1].fields.n_pairs = Len(PairedX(sample[1]))

\* C11 witness: geometry_stats reduced a window with a pixel outside the
\* polygon, a pixel close to (not equal to) nodata and a valid pixel
C11_Witness ==
  /\ Reduced("geometry_stats")
  /\ sample[1].nodata # None
  /\ \E i, j, k \in 1..Len(sample[1].data) :
       /\ ~sample[1].mask[i] /\ isfinite(sample[1].data[i])
       /\ sample[1].mask[j] /\ ~NotNodata(sample[1], j)
       /\ sample[1].data[j] # sample[1].nodata[1]
       /\ ValidPixel(sample[1], k)
  /\ resp[1].fields.stats.count = 1

\* C12: in every answer of geometry_stats stats.count equals valid_pixels,
\* valid_pixels <= window_mask_pixels, and valid_pixels + nodata_pixels =
\* window_mask_pixels with nodata_pixels >= 0.
C12_PixelCountsConsistent ==
  Reduced("geometry_stats") =>
    LET stats == resp[1].fields.stats
        area == resp[1].fields.area
    IN  /\ stats.count = area.valid_pixels
        /\ area.valid_pixels <= area.window_mask_pixels
        /\ area.valid_pixels + area.nodata_pixels = area.window_mask_pixels
        /\ area.nodata_pixels >= 0
        /\ area.window_mask_pixels = count_nonzero(sample[1].mask)

\* C12 witness: a window with a valid pixel, an Inf pixel inside the polygon
\* and a finite pixel outside the polygon
C12_Witness ==
  /\ Reduced("geometry_stats")
  /\ \E i, j, k \in 1..Len(sample[1].data) :
       /\ ValidPixel(sample[1], i)
       /\ sample[1].mask[j] /\ sample[1].data[j] = Inf
       /\ ~sample[1].mask[k] /\ isfinite(sample[1].data[k])
  /\ resp[1].fields.area.nodata_pixels > 0
  /\ resp[1].fields.area.valid_pixels > 0

\* a statistic that is there and is a number: not None, and not NaN (no
\* zero denominator, no negative radicand)
IsNumber(field) == field # None
IsRational(field) == field # None /\ field[1].den > 0
IsRoot(field) ==
  field # None /\ field[1].sqrt_of.den > 0 /\ field[1].sqrt_of.num >= 0

\* C13: when no pixel of the window is valid, pixel_stats and geometry_stats
\* return (no exception) count = 0 with min, max, mean, median, std (and sum
\* and the histogram in geometry_stats) None; in every other answer count > 0
\* and each of these statistics is a number, never None and never NaN.
C13_EmptyStatisticsAbsent ==
  (sample # None /\ sample[1].endpoint \in {"pixel_stats", "geometry_stats"})
  => LET smp == sample[1]
         empty == Len(ValidValues(smp)) = 0
         stats == resp[1].fields.stats
     IN  /\ empty =>
               /\ Reduced(smp.endpoint)
               /\ stats.count = 0
               /\ stats.min = None /\ stats.max = None /\ stats.mean = None
               /\ stats.median = None /\ stats.std = None
               /\ smp.endpoint = "geometry_stats" =>
                    (stats.sum = None /\ stats.hist = None)
         /\ (Reduced(smp.endpoint) /\ ~empty) =>
               /\ stats.count > 0
               /\ IsNumber(stats.min) /\ IsNumber(stats.max)
               /\ IsRational(stats.mean) /\ IsRational(stats.median)
               /\ IsRoot(stats.std)
               /\ smp.endpoint = "geometry_stats" =>
                    (IsNumber(stats.sum) /\ stats.hist # None)

\* C13 witness: pixel_stats on a window of several pixels that all equal or
\* are close to nodata, asked with a histogram range that is upside down
C13_Witness ==
  /\ Reduced("pixel_stats")
  /\ Len(sample[1].data) > 1
  /\ sample[1].nodata # None
  /\ \A i \in 1..Len(sample[1].data) :
       isfinite(sample[1].data[i]) /\ ~NotNodata(sample[1], i)
  /\ sample[1].histogram_range = Some(<<1, 0>>)
  /\ resp[1].fields.stats.count = 0

\* the number of histogram bins of an answer with count > 0
HistogramBins ==
  IF sample[1].endpoint = "pixel_stats"
  THEN Len(resp[1].fields.histogram.hist[1])
  ELSE Len(resp[1].fields.stats.hist[1])

\* C14 (as claimed): every statistics answer with count > 0 has between 1
\* and 64 histogram bins, whatever the values and the request parameters.
C14_HistogramBinsBounded ==
  \A endpoint \in {"pixel_stats", "geometry_stats"} :
    (Reduced(endpoint) /\ resp[1].fields.stats.count > 0) =>
      (1 <= HistogramBins /\ HistogramBins <= 64)

\* ratio is a fraction in [0, 1]: valid / masked when masked > 0, else 0
CoverageIs(ratio, valid, masked) ==
  /\ ratio.den > 0
  /\ 0 <= ratio.num /\ ratio.num <= ratio.den
  /\ masked > 0 => ratio.num * masked = valid * ratio.den
  /\ masked = 0 => ratio.num = 0

\* C15: the coverage_ratio that geometry_stats and geometry_scatter report
\* is in [0, 1], equals valid / masked when masked > 0 and is 0.0 (no
\* division error) when no pixel is inside the geometry mask.
C15_CoverageRatioInUnitRange ==
  /\ (sample # None /\ sample[1].endpoint = "geometry_stats") =>
       /\ Reduced("geometry_stats")
       /\ CoverageIs(resp[1].fields.area.coverage_ratio,
                     Len(ValidValues(sample[1])),
                     count_nonzero(sample[1].mask))
  /\ Reduced("geometry_scatter") =>
       /\ resp[1].fields.coverage_ratio # None
       /\ CoverageIs(resp[1].fields.coverage_ratio[1],
                     Len(PairedX(sample[1])),
                     count_nonzero(sample[1].mask))

\* C15 witness: geometry_stats answered for a window of valid pixels none of
\* which is inside the geometry mask
C15_Witness ==
  /\ Reduced("geometry_stats")
  /\ Len(sample[1].data) > 1
  /\ \A i \in 1..Len(sample[1].data) :
       ~sample[1].mask[i] /\ isfinite(sample[1].data[i])
  /\ resp[1].fields.area.window_mask_pixels = 0
  /\ resp[1].fields.area.coverage_ratio = Rat(0, 1)

\* the value stage of geometry_scatter ran, whatever its end
Scattered == sample # None /\ sample[1].endpoint = "geometry_scatter"

\* the pixels of the window that make a pair, in the window's order
PairedPixels(smp) ==
  BoolIndex([i \in 1..Len(smp.data) |-> i],
            [i \in 1..Len(smp.data) |-> PairedPixel(smp, i)])

\* C16: in geometry_scatter x_vals and y_vals have the same length n_pairs,
\* element i of both comes from the same pixel of raster x's window, and a
\* pixel makes a pair exactly when it is inside the geometry mask, its value
\* of raster x is finite and not nodata and its resampled value of raster y
\* is finite.
C16_PairsComeFromSamePixel ==
  Scattered =>
    LET smp == sample[1]
        pixels == PairedPixels(smp)
        x_vals == resp[1].x_vals
        y_vals == resp[1].y_vals
    IN  /\ Len(x_vals) = Len(pixels)
        /\ Len(y_vals) = Len(pixels)
        /\ \A p \in 1..Len(pixels) :
             /\ x_vals[p] = smp.data[pixels[p]].v
             /\ y_vals[p] = smp.dest_y[pixels[p]].v
        /\ Reduced("geometry_scatter") =>
             resp[1].fields.n_pairs = Len(pixels)

\* C16 witness: of two pixels inside the mask with different valid values of
\* raster x, the first has NaN for raster y and the second made the only pair
C16_Witness ==
  /\ Reduced("geometry_scatter")
  /\ Len(sample[1].data) = 2
  /\ sample[1].mask = <<TRUE, TRUE>>
  /\ ValidPixel(sample[1], 1) /\ ValidPixel(sample[1], 2)
  /\ sample[1].data[1] # sample[1].data[2]
  /\ sample[1].dest_y[1] = NaN
  /\ isfinite(sample[1].dest_y[2])
  /\ resp[1].fields.n_pairs = 1
  /\ resp[1].x_vals = <<sample[1].data[2].v>>

\* the numbers of s are not all the same
Varies(s) == \E i, j \in 1..Len(s) : s[i] # s[j]

\* C17 (as claimed): geometry_scatter gives corr, slope and intercept only
\* when n_pairs > 1 and both x_vals and y_vals vary; in every other case all
\* three are None, never NaN.
C17_FitOnlyWithVariance ==
  Reduced("geometry_scatter") =>
    LET fields == resp[1].fields
        computed == /\ fields.n_pairs > 1
                    /\ Varies(resp[1].x_vals)
                    /\ Varies(resp[1].y_vals)
    IN  /\ computed =>
              /\ fields.corr # None /\ fields.corr[1].k = "fin"
              /\ IsRational(fields.slope) /\ IsRational(fields.intercept)
        /\ ~computed =>
              /\ fields.corr = None
              /\ fields.slope = None
              /\ fields.intercept = None

\* corr, slope, intercept and hist2d are those of the paired sample (X, Y)
FitOfFullSample(smp, fields, X, Y) ==
  /\ fields.corr = IF Len(X) > 1 THEN Some(np_corrcoef(X, Y)) ELSE None
  /\ fields.slope = IF Len(X) > 1 THEN Some(np_linalg_lstsq(X, Y).slope)
                    ELSE None
  /\ fields.intercept = IF Len(X) > 1
                        THEN Some(np_linalg_lstsq(X, Y).intercept) ELSE None
  /\ fields.hist2d = Some(np_histogram2d(X, Y, Max(1, Min(256, smp.bins))))

\* C18 (as claimed): with more than max_points pairs geometry_scatter returns
\* exactly max_points (x, y) pairs, drawn without replacement from the paired
\* sample, x and y at the same indices, while corr, slope, intercept and
\* hist2d are those of the full paired sample; with at most max_points pairs
\* x and y are the full sample.  (The empty paired sample is the case of C20.)
C18_SubsampleOfMaxPoints ==
  Scattered =>
    LET smp == sample[1]
        X == PairedX(smp)
        Y == PairedY(smp)
    IN  /\ (0 < Len(X) /\ Len(X) > smp.max_points) =>
              /\ Reduced("geometry_scatter")
              /\ resp[1].fields.x # None /\ resp[1].fields.y # None
              /\ Len(resp[1].fields.x[1]) = smp.max_points
              /\ Len(resp[1].fields.y[1]) = smp.max_points
              /\ \E idx \in Choices(Len(X), smp.max_points) :
                   /\ resp[1].fields.x[1] =
                        [p \in 1..smp.max_points |-> X[idx[p]]]
                   /\ resp[1].fields.y[1] =
                        [p \in 1..smp.max_points |-> Y[idx[p]]]
              /\ FitOfFullSample(smp, resp[1].fields, X, Y)
        /\ (0 < Len(X) /\ Len(X) <= smp.max_points) =>
              /\ Reduced("geometry_scatter")
              /\ resp[1].fields.x = Some(X)
              /\ resp[1].fields.y = Some(Y)
              /\ FitOfFullSample(smp, resp[1].fields, X, Y)

C19_SameInputsSameSubsample ==
  \A i \in 1..Len(answers), j \in 1..Len(answers) :
    (/\ answers[i].max_points = answers[j].max_points
     /\ Len(scatter_x_vals) > answers[i].max_points) =>
      /\ answers[i].outcome = answers[j].outcome
      /\ answers[i].x = answers[j].x
      /\ answers[i].y = answers[j].y

\* C19 witness: two answers to the same request with a subsample of two
\* pairs; values were drawn from the module-wide generator between them
C19_Witness ==
  /\ Len(answers) = 2
  /\ answers[1].max_points = 2
  /\ answers[2].max_points = 2
  /\ Len(scatter_x_vals) > 2
  /\ answers[1].x # None
  /\ Len(answers[1].x[1]) = 2
  /\ answers[1].draws < answers[2].draws

\* ---------------------------------------------------------------- closing claims
\* C21: in geometry_scatter raster B (the second read of the request) is read
\* through a window on B's grid only: no read of B takes the whole band.
C21_RasterBReadThroughWindow ==
  call.endpoint = "geometry_scatter" =>
    \A i \in 2..Len(reads) : reads[i].window # None

\* C22: for every raster and every frac in (0, 1], _sample_percentiles draws
\* `samples` windows of int(height * frac) x int(width * frac) pixels, each
\* inside the raster, and returns; ValueError is raised only for a frac
\* outside (0, 1].
FracInRange(frac) == 0 < frac.num /\ frac.num <= frac.den
C22_SampleWindowsInBounds ==
  (sample # None /\ sample[1].endpoint = "_sample_percentiles") =>
    LET src == sample[1].src
        frac == sample[1].frac
        windows == resp[1].windows
    IN  /\ FracInRange(frac) =>
             /\ resp[1].outcome.kind = "return"
             /\ Len(windows) = sample[1].samples
             /\ \A i \in 1..Len(windows) :
                  /\ windows[i].height = window_length(src.height, frac)
                  /\ windows[i].width = window_length(src.width, frac)
                  /\ 0 <= windows[i].row_off
                  /\ windows[i].row_off + windows[i].height <= src.height
                  /\ 0 <= windows[i].col_off
                  /\ windows[i].col_off + windows[i].width <= src.width
        /\ resp[1].outcome.value = "ValueError" => ~FracInRange(frac)

\* C23: the per-pixel area behind the area metrics of pixel_stats and
\* geometry_stats is |a*e - b*d| of the raster's transform, rotated and
\* sheared transforms included.
Determinant(t) == t.a * t.e - t.b * t.d
C23_PixelAreaIsDeterminant ==
  /\ Reduced("pixel_stats") =>
       LET stats == resp[1].fields.stats
           area == Abs(Determinant(sample[1].ds.transform))
       IN  stats.full_area_m2 # None =>
             /\ stats.full_area_m2 = Some(area * Len(sample[1].data))
             /\ stats.non_nodata_area_m2 = Some(area * stats.count)
  /\ Reduced("geometry_stats") =>
       LET area_stats == resp[1].fields.area
           area == Abs(Determinant(sample[1].ds.transform))
       IN  /\ area_stats.pixel_area = area
           /\ area_stats.window_mask_area_m2 =
                area * area_stats.window_mask_pixels
           /\ area_stats.valid_area_m2 = area * area_stats.valid_pixels
           /\ area_stats.nodata_area_m2 = area * area_stats.nodata_pixels

\* C24: in pixel_stats and geometry_stats std is the sample standard
\* deviation of the valid values (the root of the sum of the squared
\* distances to the mean over n - 1) when n > 1, exactly 0.0 and not None
\* when n = 1, and never negative.
SquaredDistances(vs) ==
  LET n == Len(vs)
  IN  SeqSum([i \in 1..n |-> (n * vs[i] - SeqSum(vs)) * (n * vs[i] - SeqSum(vs))])
C24_SampleStandardDeviation ==
  \A endpoint \in {"pixel_stats", "geometry_stats"} :
    Reduced(endpoint) =>
      LET vs == ValidValues(sample[1])
          n == Len(vs)
          std == resp[1].fields.stats.std
      IN  /\ n >= 1 => IsRoot(std)
          /\ n = 1 => std[1].sqrt_of.num = 0
          /\ n > 1 => std[1].sqrt_of.num * (n * n * (n - 1)) =
                        std[1].sqrt_of.den * SquaredDistances(vs)

\* C24 witness: geometry_stats answered for three valid values that are not
\* all the same; the deviation is above 0
C24_Witness ==
  /\ Reduced("geometry_stats")
  /\ Len(ValidValues(sample[1])) = 3
  /\ Varies(ValidValues(sample[1]))
  /\ resp[1].fields.stats.std[1].sqrt_of.num > 0

\* ---------------------------------------------------------------- script claims
\* C25: ping_until_up returns only after a GET of /rest/about/version.json
\* was answered 200; a request exception or another answer is followed by a
\* sleep of 2 seconds and, from the second on, every attempt comes after such
\* a sleep; TimeoutError is raised only when timeout_sec has elapsed without
\* a 200; and the call always ends.
IsVersionGet(ev) == ev.op = "GET" /\ ev.path = "/rest/about/version.json"
C25_PingSafety ==
  /\ (frame = "done" /\ result.kind = "return") =>
       /\ Len(trace) > 0
       /\ IsVersionGet(trace[Len(trace)])
       /\ trace[Len(trace)].status_code = 200
  /\ \A i \in 1..Len(trace) :
       /\ (IsVersionGet(trace[i]) /\ i > 1) => trace[i - 1] = Sleep(2)
       /\ (IsVersionGet(trace[i]) /\ i < Len(trace)) =>
            (trace[i].status_code # 200 /\ trace[i + 1] = Sleep(2))
  /\ (frame = "done" /\ result.kind = "raise") =>
       /\ result.value = "TimeoutError"
       /\ locals[1].elapsed >= locals[1].timeout_sec
       /\ \A i \in 1..Len(trace) : trace[i].status_code # 200
C25_PingReturnsOrTimesOut ==
  /\ []C25_PingSafety
  /\ <>(frame = "done")

\* C25 witness: two attempts failed, one with an exception and one with
\* another answer, and the third was answered 200
C25_Witness ==
  /\ frame = "done"
  /\ result.kind = "return"
  /\ Len(trace) = 5
  /\ trace[1].status_code = RequestException
  /\ trace[3].status_code = 500

\* C26: purge_and_create_workspace sends the create POST only after the
\* DELETE of every listed workspace was answered 200, 202, 204 or 404, and
\* the set-default PUT only after the create was answered 200 or 201; a
\* listing answered otherwise than 200, any other answer to a delete, a
\* create or a set-default answered otherwise than 200 or 201 raises
\* RuntimeError, and after a RuntimeError no further request is sent.
AnsweredBadly(ev) ==
  /\ ev.status_code # RequestException
  /\ \/ ev.op = "GET" /\ ev.status_code # 200
     \/ ev.op = "DELETE" /\ ev.status_code \notin {200, 202, 204, 404}
     \/ ev.op \in {"POST", "PUT"} /\ ev.status_code \notin {200, 201}
StyleRequestsInOrder ==
  /\ \A i \in 1..Len(trace) :
       /\ trace[i].op = "POST" =>
            /\ i = 2
            /\ trace[1].op = "GET" /\ trace[1].status_code # 200
       /\ (trace[i].op = "POST" /\ AnsweredBadly(trace[i])) =>
            (result = Raise("RuntimeError") /\ i = Len(trace))
  /\ (frame = "done" /\ result.kind = "return") =>
       /\ Len(trace) > 0
       /\ trace[1].op = "GET"
       /\ trace[Len(trace)].op = "PUT"
       /\ trace[Len(trace)].status_code \in {200, 201}

SupportedInAnyCase == {"sld", "SLD", "geocss", "GeoCSS", "mbstyle", "ysld"}
Position(op) ==
  IF \E i \in 1..Len(trace) : trace[i].op = op
  THEN CHOOSE i \in 1..Len(trace) : trace[i].op = op
  ELSE 0
Before(op1, op2) ==
  Position(op2) > 0 => (0 < Position(op1) /\ Position(op1) < Position(op2))
C28_WorkflowSchedulesEveryLayer ==
  /\ Before("ping_until_up", "purge_and_create_workspace")
  /\ Before("purge_and_create_workspace", "create_style_if_not_exists")
  /\ Before("create_style_if_not_exists", "join")
  /\ Before("join", "PUT")
  /\ ( /\ frame = "done"
       /\ \E i \in 1..Len(trace) :
            trace[i].op = "create_style_if_not_exists" /\ trace[i].status_code = "" ) =>
       /\ Position("join") > 0
       /\ \A raster_id \in 1..locals[1].layers :
            \E i \in 1..(Position("join") - 1) :
              /\ trace[i] = AddTask("create_layer", raster_id)
              /\ locals[1].geoserver_init_process_files =>
                   \E j \in 1..(i - 1) :
                     trace[j] = AddTask(
                       "reproject_and_build_overviews_if_needed", raster_id)

\* C29: whenever reproject_and_build_overviews_if_needed has ended, by a
\* return or by an exception raised while writing, reprojecting, cropping or
\* building overviews, the temporary file made by mkstemp next to dst_path
\* does not exist.
C29_TempFileRemovedOnEveryExit ==
  frame = "done" => "tmp_dst_path" \notin locals[1].files

\* the rasters of the scan that share the stem of an earlier one
DuplicateStems ==
  {path_stem(locals[1].rasters[j]) : j \in
     {j \in DOMAIN locals[1].rasters :
        \E i \in 1..(j - 1) :
          path_stem(locals[1].rasters[i]) = path_stem(locals[1].rasters[j])}}

\* the first raster with stem k in sorted path order
FirstWithStem(k) ==
  locals[1].rasters[CHOOSE i \in DOMAIN locals[1].rasters :
                      /\ path_stem(locals[1].rasters[i]) = k
                      /\ \A j \in 1..(i - 1) :
                           path_stem(locals[1].rasters[j]) # k]

\* C30: when two scanned rasters have the same stem, main of
\* raster_manifest_builder completes, the layers map holds one entry for the
\* stem, which is the entry of the first raster in sorted path order, and
\* the style file that entry names was generated from that first raster.
C30_DuplicateStemKeepsFirst ==
  (frame = "done" /\ DuplicateStems # {} /\
   \A i \in DOMAIN trace : trace[i].status_code # "RasterioIOError")
    => /\ result = Return("None")
       /\ \A k \in DuplicateStems :
            /\ k \in DOMAIN locals[1].layers
            /\ locals[1].layers[k].file_path = FirstWithStem(k)
            /\ locals[1].styles[locals[1].layers[k].default_style]
                 = FirstWithStem(k)

====
